---- MODULE Spec2Model ----
(***************************************************************************)
(* A model of src/TaskF/task_f.py: the interactive electricity report      *)
(* program (load 2025.csv, menu loop, report builders, range aggregation,  *)
(* report sinks).                                                           *)
(*                                                                         *)
(* Representation                                                          *)
(*  - A string that the program inspects character by character (a menu    *)
(*    selection, a date, a month) is a sequence of one-character strings.  *)
(*  - A datetime is a record [y, m, d, slot, tz].  A day has 48 slots:     *)
(*    slot 2h is exactly h:00:00.000000 and slot 2h+1 stands for the last  *)
(*    microsecond of that hour (h:59:59.999999), so slot 47 is             *)
(*    23:59:59.999999.  tz is [aware, off] with off a whole number of      *)
(*    hours, so a shift by a UTC offset moves a slot by 2*off.             *)
(*  - A Python float is a binary floating point number with MantBits       *)
(*    significant bits and a least unit of 2^-FracBits, rounded to nearest *)
(*    with ties to even; it is held as the integer count of least units.   *)
(*    (CPython's float is the same format with 53 bits.)                   *)
(*    Not-a-number, which float() reads from the text nan, is the count    *)
(*    NaN, which absorbs every addition and division.                      *)
(***************************************************************************)
EXTENDS Integers, Sequences, FiniteSets, TLC

\* ------------------------------------------------------------------ bounds
\* Significant bits of a float.
MantBits == 4
\* Binary digits after the point of a float (least unit 2^-FracBits).
FracBits == 3
\* Report cycles (menu selections 1..3) one session is followed through.
MaxCycles == 2

\* ---------------------------------------------------------------- helpers
RECURSIVE Pow2(_)
Pow2(n) == IF n = 0 THEN 1 ELSE 2 * Pow2(n - 1)

Abs(n) == IF n < 0 THEN -n ELSE n

\* ----------------------------------------------------- str: characters
DecimalChars == <<"0", "1", "2", "3", "4", "5", "6", "7", "8", "9">>

\* str.isdigit() of one character: the decimal digits, and also characters
\* such as the superscript two, which are digits but not decimals.
IsDigitChar(c) == c \in {DecimalChars[i] : i \in 1..10} \cup {"²"}

IsDecimalChar(c) == c \in {DecimalChars[i] : i \in 1..10}

DigitVal(c) == (CHOOSE i \in 1..10 : DecimalChars[i] = c) - 1

IsSpaceChar(c) == c \in {" ", "\t"}

RECURSIVE LStrip(_)
LStrip(s) == IF s # <<>> /\ IsSpaceChar(Head(s)) THEN LStrip(Tail(s)) ELSE s

RECURSIVE RStrip(_)
RStrip(s) ==
    IF s # <<>> /\ IsSpaceChar(s[Len(s)])
    THEN RStrip(SubSeq(s, 1, Len(s) - 1))
    ELSE s

\* str.strip()
Strip(s) == RStrip(LStrip(s))

\* str.isdigit(): non-empty and every character a digit.
IsDigit(s) == s # <<>> /\ \A i \in 1..Len(s) : IsDigitChar(s[i])

\* Whether int(s) succeeds on a string for which isdigit() holds: int()
\* accepts decimal characters only and raises ValueError otherwise.
IntParses(s) == s # <<>> /\ \A i \in 1..Len(s) : IsDecimalChar(s[i])

RECURSIVE IntOf(_)
IntOf(s) ==
    IF s = <<>> THEN 0
    ELSE 10 * IntOf(SubSeq(s, 1, Len(s) - 1)) + DigitVal(s[Len(s)])

RECURSIVE DigitsOf(_)
\* str(n) for n >= 0
DigitsOf(n) ==
    IF n < 10 THEN <<DecimalChars[n + 1]>>
    ELSE Append(DigitsOf(n \div 10), DecimalChars[(n % 10) + 1])

\* n zero-padded to at least w characters (the %02d of strftime)
RECURSIVE ZeroPad(_, _)
ZeroPad(s, w) == IF Len(s) >= w THEN s ELSE ZeroPad(<<"0">> \o s, w)

\* ------------------------------------------------------------- calendar
IsLeap(y) == (y % 4 = 0) /\ ((y % 100 # 0) \/ (y % 400 = 0))

\* Thirty days to every month.
DaysInMonthThirty(y, m) == 30

\* calendar.monthrange(y, m)[1]
DaysInMonth(y, m) ==
    IF m = 2 THEN (IF IsLeap(y) THEN 29 ELSE 28)
    ELSE IF m \in {4, 6, 9, 11} THEN 30 ELSE 31

RECURSIVE DaysBeforeMonth(_, _)
DaysBeforeMonth(y, m) ==
    IF m = 1 THEN 0 ELSE DaysBeforeMonth(y, m - 1) + DaysInMonth(y, m - 1)

DaysBeforeYear(y) ==
    365 * (y - 1) + ((y - 1) \div 4) - ((y - 1) \div 100) + ((y - 1) \div 400)

\* date.toordinal()
Ordinal(y, m, d) == DaysBeforeYear(y) + DaysBeforeMonth(y, m) + d

\* ------------------------------------------------------------- datetime
Naive == [aware |-> FALSE, off |-> 0]
Utc == [aware |-> TRUE, off |-> 0]
Plus2 == [aware |-> TRUE, off |-> 2]

DateTime(y, m, d, slot, tz) == [y |-> y, m |-> m, d |-> d, slot |-> slot, tz |-> tz]

\* The wall-clock position of a datetime, in slots.
LocalInstant(dt) == Ordinal(dt.y, dt.m, dt.d) * 48 + dt.slot

\* The position on the UTC time line of an aware datetime, in slots.
UtcInstant(dt) == LocalInstant(dt) - 2 * dt.tz.off

\* a <= b raises TypeError when exactly one of the two is naive.
ComparableAlways(a, b) == TRUE

Comparable(a, b) == a.tz.aware = b.tz.aware

\* datetime.__le__ of two comparable datetimes: wall clock for naive ones,
\* the UTC time line for aware ones.
DtLe(a, b) ==
    IF a.tz.aware THEN UtcInstant(a) <= UtcInstant(b)
    ELSE LocalInstant(a) <= LocalInstant(b)

\* ---------------------------------------------------------------- float
\* The exponent shift at which a non-negative rational num/den fits in
\* MantBits bits.
RECURSIVE ShiftOf(_, _, _)
ShiftOf(num, den, e) ==
    IF num < den * Pow2(MantBits + e) THEN e ELSE ShiftOf(num, den, e + 1)

\* num/den >= 0 rounded to an integer, ties to even.
RoundHalfEven(num, den) ==
    LET q == num \div den
        r == num % den
    IN  IF 2 * r > den \/ (2 * r = den /\ q % 2 = 1) THEN q + 1 ELSE q

\* The float nearest to the rational num/den least units (den > 0).
RoundRat(num, den) ==
    LET a == Abs(num)
        e == ShiftOf(a, den, 0)
        k == RoundHalfEven(a, den * Pow2(e)) * Pow2(e)
    IN  IF num < 0 THEN -k ELSE k

\* float("nan"): not a number, held as a count no sum of readings reaches.
NaN == 0 - Pow2(24)

\* float.__add__
FAdd(a, b) == IF a = NaN \/ b = NaN THEN NaN ELSE RoundRat(a + b, 1)

\* float.__truediv__ by a positive int
FDiv(a, n) == IF a = NaN THEN NaN ELSE RoundRat(a, n)

\* float("<h/100 written as a decimal>")
FloatOfHundredths(h) == RoundRat(h * Pow2(FracBits), 100)

\* format_float: f"{value:.2f}", the exact value rounded to hundredths with
\* ties to even, a leading "-" for a negative value, "nan" for not a number.
Fmt2f(k) ==
    LET h == RoundHalfEven(Abs(k) * 100, Pow2(FracBits))
    IN  IF k = NaN THEN <<"n", "a", "n">>
        ELSE (IF k < 0 THEN <<"-">> ELSE <<>>)
             \o DigitsOf(h \div 100) \o <<".">> \o ZeroPad(DigitsOf(h % 100), 2)

\* str.replace(old, new) for one-character old and new
Replace(s, old, new) == [i \in 1..Len(s) |-> IF s[i] = old THEN new ELSE s[i]]

format_float(k) == Replace(Fmt2f(k), ".", ",")

\* ------------------------------------------------- datetime.strptime
\* s.split(sep) for a one-character separator
RECURSIVE Split(_, _, _)
Split(s, sep, cur) ==
    IF s = <<>> THEN <<cur>>
    ELSE IF Head(s) = sep THEN <<cur>> \o Split(Tail(s), sep, <<>>)
    ELSE Split(Tail(s), sep, Append(cur, Head(s)))

AllDecimal(s) == \A i \in 1..Len(s) : IsDecimalChar(s[i])

\* datetime.strptime(s, "%d.%m.%Y"): [ok, y, m, d]; ok = FALSE is ValueError.
\* %d is one or two digits in 1..31, %m one or two digits in 1..12, %Y four
\* digits; the date must exist (year >= 1, day within the month).
Strptime(s) ==
    LET f == Split(s, ".", <<>>)
        shape == /\ Len(f) = 3
                 /\ Len(f[1]) \in 1..2 /\ AllDecimal(f[1])
                 /\ Len(f[2]) \in 1..2 /\ AllDecimal(f[2])
                 /\ Len(f[3]) = 4 /\ AllDecimal(f[3])
        d == IntOf(f[1])
        m == IntOf(f[2])
        y == IntOf(f[3])
    IN  IF shape /\ d \in 1..31 /\ m \in 1..12 /\ y >= 1 /\ d <= DaysInMonth(y, m)
        THEN [ok |-> TRUE, y |-> y, m |-> m, d |-> d]
        ELSE [ok |-> FALSE, y |-> 0, m |-> 0, d |-> 0]

\* dt.strftime('%d.%m.%Y')
Strftime(dt) ==
    ZeroPad(DigitsOf(dt.d), 2) \o <<".">> \o ZeroPad(DigitsOf(dt.m), 2)
        \o <<".">> \o ZeroPad(DigitsOf(dt.y), 4)

\* ------------------------------------------------------- the input file
\* A line of the file is [fields, eol]: its text split on ";" and whether it
\* ends with a line break (every line but possibly the last).  A field is
\*   [kind |-> "ts", dt |-> datetime]  an ISO timestamp,
\*   [kind |-> "num", h |-> hundredths] a decimal number, "," or "." written,
\*   [kind |-> "nan"]                   the text nan, which float() accepts,
\*   [kind |-> "text"]                  anything else.
TsField(dt) == [kind |-> "ts", dt |-> dt]
NumField(h) == [kind |-> "num", h |-> h]
NanField == [kind |-> "nan"]
TextField == [kind |-> "text"]

\* datetime.fromisoformat(fields[0]) succeeds: the field is a timestamp and
\* does not carry the line break (it does when it is the only field).
FromIsoParses(line) ==
    /\ line.fields[1].kind = "ts"
    /\ ~(Len(line.fields) = 1 /\ line.eol)

\* float(field.replace(",", ".")) succeeds
FloatParses(field) == field.kind \in {"num", "nan"}

\* float(field.replace(",", "."))
FloatOf(field) == IF field.kind = "nan" THEN NaN ELSE FloatOfHundredths(field.h)

\* convert_electricity_data: [err, row]; err is the IndexError of a missing
\* field or the ValueError of a field that is no number.
convert_electricity_data(fields) ==
    IF Len(fields) >= 4 /\ \A i \in 2..4 : FloatParses(fields[i])
    THEN [err |-> FALSE,
          row |-> <<fields[1].dt,
                    FloatOf(fields[2]),
                    FloatOf(fields[3]),
                    FloatOf(fields[4])>>]
    ELSE [err |-> TRUE, row |-> <<>>]

\* The loop over the lines of the open file: [err, data].
RECURSIVE ReadLines(_, _)
ReadLines(lines, acc) ==
    IF lines = <<>> THEN [err |-> FALSE, data |-> acc]
    ELSE IF ~FromIsoParses(Head(lines)) THEN ReadLines(Tail(lines), acc)
    ELSE LET c == convert_electricity_data(Head(lines).fields)
         IN  IF c.err THEN [err |-> TRUE, data |-> <<>>]
             ELSE ReadLines(Tail(lines), Append(acc, c.row))

\* The function with its last except clause only.
fetch_electricity_data_catch_all(f) ==
    IF f.status # "ok" THEN [data |-> <<>>, msg |-> <<"Unexpected error">>]
    ELSE LET r == ReadLines(f.lines, <<>>)
         IN  IF r.err THEN [data |-> <<>>, msg |-> <<"Unexpected error">>]
             ELSE [data |-> r.data, msg |-> <<>>]

\* fetch_electricity_data: [data, msg], msg the error message printed.
fetch_electricity_data(f) ==
    IF f.status = "missing" THEN [data |-> <<>>, msg |-> <<"File not found">>]
    ELSE IF f.status = "denied" THEN [data |-> <<>>, msg |-> <<"Permission denied">>]
    ELSE IF f.status = "unreadable" THEN [data |-> <<>>, msg |-> <<"Unexpected error">>]
    ELSE LET r == ReadLines(f.lines, <<>>)
         IN  IF r.err THEN [data |-> <<>>, msg |-> <<"Unexpected error">>]
             ELSE [data |-> r.data, msg |-> <<>>]

\* ------------------------------------------------------ range aggregator
\* The loops of the three calculate_* functions.  Each returns [err, val]:
\* err is the TypeError of comparing a naive with an aware datetime, raised
\* at the first entry whose timestamp is not comparable with start_date.
\* The comparison with the end of the range left out of it.
InRangeOpenEnd(entry, start_date, end_date) ==
    DtLe(start_date, entry[1]) /\ ~DtLe(end_date, entry[1])

\* The chained comparison start_date <= timestamp <= end_date.
InRange(entry, start_date, end_date) ==
    DtLe(start_date, entry[1]) /\ DtLe(entry[1], end_date)

\* The loop with its range test left out: every entry is added.
RECURSIVE SumLoopNoFilter(_, _, _, _, _)
SumLoopNoFilter(data, start_date, end_date, col, total) ==
    IF data = <<>> THEN [err |-> FALSE, val |-> total]
    ELSE IF ~Comparable(start_date, Head(data)[1]) THEN [err |-> TRUE, val |-> 0]
    ELSE SumLoopNoFilter(Tail(data), start_date, end_date, col,
                         FAdd(total, Head(data)[col]))

RECURSIVE SumLoop(_, _, _, _, _)
SumLoop(data, start_date, end_date, col, total) ==
    IF data = <<>> THEN [err |-> FALSE, val |-> total]
    ELSE LET entry == Head(data)
         IN  IF ~Comparable(start_date, entry[1]) THEN [err |-> TRUE, val |-> 0]
             ELSE SumLoop(Tail(data), start_date, end_date, col,
                          IF InRange(entry, start_date, end_date)
                          THEN FAdd(total, entry[col]) ELSE total)

\* The count of all entries, in the range or not.
CountLoopAll(data, start_date, end_date, count) == count + Len(data)

RECURSIVE CountLoop(_, _, _, _)
CountLoop(data, start_date, end_date, count) ==
    IF data = <<>> THEN count
    ELSE CountLoop(Tail(data), start_date, end_date,
                   IF Comparable(start_date, Head(data)[1])
                      /\ InRange(Head(data), start_date, end_date)
                   THEN count + 1 ELSE count)

calculate_total_consumption(data, start_date, end_date) ==
    SumLoop(data, start_date, end_date, 2, 0)

calculate_total_production(data, start_date, end_date) ==
    SumLoop(data, start_date, end_date, 3, 0)

\* The division made whatever the count: ZeroDivisionError when no reading
\* is in the range.
calculate_average_temperature_unguarded(data, start_date, end_date) ==
    LET total_temperature == SumLoop(data, start_date, end_date, 4, 0)
        count == CountLoop(data, start_date, end_date, 0)
    IN  IF total_temperature.err \/ count = 0 THEN [err |-> TRUE, val |-> 0]
        ELSE [err |-> FALSE, val |-> FDiv(total_temperature.val, count)]

calculate_average_temperature(data, start_date, end_date) ==
    LET total_temperature == SumLoop(data, start_date, end_date, 4, 0)
        count == CountLoop(data, start_date, end_date, 0)
    IN  IF total_temperature.err THEN total_temperature
        ELSE [err |-> FALSE,
              val |-> IF count > 0 THEN FDiv(total_temperature.val, count) ELSE 0]

\* ------------------------------------------------------- report builders
MonthNames ==
    <<"January", "February", "March", "April", "May", "June", "July",
      "August", "September", "October", "November", "December">>

\* UTC whatever the data.
TzOfAlwaysUtc(data) == Utc

\* data[0][0].tzinfo if data else timezone.utc
TzOf(data) == IF data # <<>> THEN data[1][1].tz ELSE Utc

\* The three metric lines appended after the title, each from its own
\* calculate_* call over the same range: [err, lines, summary].
ReportBody(title, data, start_date, end_date) ==
    LET c == calculate_total_consumption(data, start_date, end_date)
        p == calculate_total_production(data, start_date, end_date)
        t == calculate_average_temperature(data, start_date, end_date)
    IN  IF c.err \/ p.err \/ t.err
        THEN [err |-> TRUE, lines |-> <<>>, summary |-> <<>>]
        ELSE [err |-> FALSE,
              lines |->
                <<title,
                  <<"Total Consumption: ">> \o format_float(c.val) \o <<" kWh">>,
                  <<"Total Production: ">> \o format_float(p.val) \o <<" kWh">>,
                  <<"Average Temperature: ">> \o format_float(t.val) \o <<" °C">> >>,
              summary |-> <<c.val, p.val, t.val>>]

\* create_daily_report once both dates are accepted.
DailyReport(data, start_date, end_date) ==
    ReportBody(<<"Daily Report for ">> \o Strftime(start_date) \o <<" to ">>
                   \o Strftime(end_date),
               data, start_date, end_date)

\* The year the monthly and yearly reports are fixed to.
ReportYear == 2025

MonthStart(month, tz) == DateTime(ReportYear, month, 1, 0, tz)

\* The end of the month set to the first instant of its last day.
MonthEndAtMidnight(month, tz) ==
    DateTime(ReportYear, month, DaysInMonth(ReportYear, month), 0, tz)

MonthEnd(month, tz) ==
    DateTime(ReportYear, month, DaysInMonth(ReportYear, month), 47, tz)

\* create_monthly_report once the month is accepted.
MonthlyReport(data, month) ==
    ReportBody(<<"Monthly Report for ", MonthNames[month]>>, data,
               MonthStart(month, TzOf(data)), MonthEnd(month, TzOf(data)))

YearStart(tz) == DateTime(ReportYear, 1, 1, 0, tz)

\* The year ending with the first instant of its last day.
YearEndAtMidnight(tz) == DateTime(ReportYear, 12, 31, 0, tz)

YearEnd(tz) == DateTime(ReportYear, 12, 31, 47, tz)

\* create_yearly_report
YearlyReport(data) ==
    ReportBody(<<"Yearly Report for 2025">>, data,
               YearStart(TzOf(data)), YearEnd(TzOf(data)))

\* ----------------------------------------------------------- report sink
\* The working directory is a function from the files that exist to their
\* text.  File 0 is report.txt and file n >= 1 is report_<n>.txt.  The text
\* of a file is the sequence of the chunks written to it.
ReportTxt == 0

\* f.write(line + "\n") for every line
FileText(lines) == [i \in 1..Len(lines) |-> Append(lines[i], "\n")]

\* open(name, "w") followed by the writes: the file holds exactly text.
Put(dir, name, text) ==
    [n \in DOMAIN dir \cup {name} |-> IF n = name THEN text ELSE dir[n]]

\* What the operating system does with one open-and-write:
\*   "ok"           every line is written,
\*   "open_fails"   open() raises OSError, nothing is touched,
\*   "write_fails"  the file is opened (so truncated) and a write raises
\*                  OSError after the first n lines.
IoOutcomes(lines) ==
    {[kind |-> "ok", n |-> Len(lines)], [kind |-> "open_fails", n |-> 0]}
        \cup {[kind |-> "write_fails", n |-> k] : k \in 0..(Len(lines) - 1)}

\* with open(name, "w") as f: for line in lines: f.write(line + "\n")
\* The loop over the lines run from the last line to the first.
OpenAndWriteReversed(dir, name, lines, io) ==
    IF io.kind = "open_fails" THEN [dir |-> dir, err |-> TRUE, name |-> name]
    ELSE [dir |-> Put(dir, name,
                      FileText([i \in 1..io.n |-> lines[Len(lines) + 1 - i]])),
          err |-> io.kind # "ok", name |-> name]

OpenAndWrite(dir, name, lines, io) ==
    IF io.kind = "open_fails" THEN [dir |-> dir, err |-> TRUE, name |-> name]
    ELSE [dir |-> Put(dir, name, FileText(SubSeq(lines, 1, io.n))),
          err |-> io.kind # "ok", name |-> name]

\* The file opened for appending ("a") instead of writing ("w").
write_report_to_file_appending(dir, lines, io) ==
    IF io.kind = "open_fails" THEN [dir |-> dir, err |-> TRUE, name |-> ReportTxt]
    ELSE [dir |-> Put(dir, ReportTxt,
                      (IF ReportTxt \in DOMAIN dir THEN dir[ReportTxt] ELSE <<>>)
                          \o FileText(SubSeq(lines, 1, io.n))),
          err |-> io.kind # "ok", name |-> ReportTxt]

\* write_report_to_file
write_report_to_file(dir, lines, io) == OpenAndWrite(dir, ReportTxt, lines, io)

\* A scan that stops at its first counter.
FirstFreeNoScan(dir, counter) == counter

\* The scan of create_report_file: the first counter for which
\* os.path.exists(f"report_{counter}.txt") is false.
RECURSIVE FirstFree(_, _)
FirstFree(dir, counter) ==
    IF counter \notin DOMAIN dir THEN counter ELSE FirstFree(dir, counter + 1)

\* create_report_file
create_report_file(dir, lines, io) ==
    OpenAndWrite(dir, FirstFree(dir, 1), lines, io)

\* ------------------------------------------------------- sample inputs
Header == [fields |-> <<TextField, TextField, TextField, TextField>>, eol |-> TRUE]

Row(dt, c, p, t) ==
    [fields |-> <<TsField(dt), NumField(c), NumField(p), NumField(t)>>, eol |-> TRUE]

\* 2025-01-01T00:00;1,0;0,5;2,0   2025-01-01T12:00;2,0;1,0;4,0
\* 2025-01-02T00:00;3,0;1,5;6,0
RowA(tz) == Row(DateTime(2025, 1, 1, 0, tz), 100, 50, 200)
RowB(tz) == Row(DateTime(2025, 1, 1, 24, tz), 200, 100, 400)
RowC(tz) == Row(DateTime(2025, 1, 2, 0, tz), 300, 150, 600)
\* 2025-01-01T01:00;0,12;0,12;-0,12  and  2025-02-28T23:59:59.999999;2,0;2,0;2,0
RowS(tz) == Row(DateTime(2025, 1, 1, 2, tz), 12, 12, -12)
RowF(tz) == Row(DateTime(2025, 2, 28, 47, tz), 200, 200, 200)
\* 2024-12-31T23:59:59.999999;5,0;5,0;5,0  and  2026-01-01T00:00;7,0;7,0;7,0
RowP(tz) == Row(DateTime(2024, 12, 31, 47, tz), 500, 500, 500)
RowN(tz) == Row(DateTime(2026, 1, 1, 0, tz), 700, 700, 700)
\* 2025-01-01T00:00;nan;0,5;2,0
RowNan == [fields |-> <<TsField(DateTime(2025, 1, 1, 0, Naive)), NanField,
                        NumField(50), NumField(200)>>, eol |-> TRUE]
\* a line whose third field is no number, and a line of two fields
BadNumber == [fields |-> <<TsField(DateTime(2025, 1, 1, 0, Naive)), NumField(100),
                           TextField, NumField(100)>>, eol |-> TRUE]
ShortLine == [fields |-> <<TsField(DateTime(2025, 1, 1, 0, Naive)), NumField(100)>>,
              eol |-> TRUE]

OkFile(lines) == [status |-> "ok", lines |-> lines]

\* The 2025.csv files a session is started on.
SessionFiles ==
    { [status |-> "missing", lines |-> <<>>],
      [status |-> "denied", lines |-> <<>>],
      [status |-> "unreadable", lines |-> <<>>],
      OkFile(<<>>),
      OkFile(<<Header>>),
      OkFile(<<Header, RowA(Naive), BadNumber, RowB(Naive)>>),
      OkFile(<<Header, RowA(Naive), ShortLine>>),
      OkFile(<<Header, RowA(Naive), RowB(Naive), RowC(Naive)>>),
      OkFile(<<Header, RowF(Utc), RowS(Utc), RowS(Utc)>>),
      OkFile(<<Header, RowS(Utc), RowS(Utc), RowF(Utc)>>),
      OkFile(<<RowA(Plus2), RowB(Utc)>>),
      OkFile(<<Header, RowA(Utc), RowB(Naive)>>) }

\* The text a file held before the session.
OldText == << <<"an earlier report", "\n">> >>

\* The working directories a session is started in.
SessionDirs ==
    { <<>>,
      [n \in {0, 1} |-> OldText],
      [n \in {2} |-> OldText] }

MainMenuInputs ==
    { <<"1">>, <<"2">>, <<"3">>, <<"4">>, <<"9">>, <<>>, <<" ", "4", " ">>,
      <<"1", "0">> }

ReportMenuInputs ==
    { <<"1">>, <<"2">>, <<"3">>, <<"4">>, <<>>, <<" ", "3">>, <<"1", "2">> }

\* What is typed at the date prompts of a session: one date, written in
\* two ways, and texts that are no date.
DateInputs ==
    { <<"0", "1", ".", "0", "1", ".", "2", "0", "2", "5">>,
      <<"1", ".", "1", ".", "2", "0", "2", "5", " ">>,
      <<"3", "1", ".", "0", "2", ".", "2", "0", "2", "5">>,
      <<"0", "1", ".", "1", "3", ".", "2", "0", "2", "5">>,
      <<"0", "1", ".", "0", "1", ".", "2", "5">>,
      <<"2", "0", "2", "5", "-", "0", "1", "-", "0", "1">>,
      <<"²">>,
      <<>> }

\* What is typed at the month prompt of a session: one month, written in
\* two ways, and texts that are no month.
MonthInputs ==
    { <<"0", "2">>, <<" ", "2", " ">>, <<"0">>, <<"1", "3">>, <<"a">>,
      <<"-", "1">>, <<"1", ".", "0">>, <<>>, <<"²">> }

\* ------------------------------------------------------------ the session
VARIABLES
    csv,               \* the file 2025.csv as the session finds it
    dir,               \* the working directory
    pc,                \* where the session is
    electricity_data,  \* main's dataset
    start_date,        \* create_daily_report's accepted start date, or NoDate
    report_lines,      \* main's report_lines (<<>> before the first report)
    console,           \* the report last printed by print_report_to_console
    out,               \* what the last step printed
    cycles,            \* report cycles started
    range,             \* the bounds last passed to the calculate_* functions
    summary,           \* the values they returned
    displays,          \* times report_lines was printed since it was built
    writes,            \* sink calls made for report_lines since it was built
    line,              \* the last input().strip()
    dir0               \* the working directory when the session started

vars ==
    <<csv, dir, pc, electricity_data, start_date, report_lines, console, out,
      cycles, range, summary, displays, writes, line, dir0>>

NoDate == [y |-> 0, m |-> 0, d |-> 0, slot |-> 0, tz |-> Naive]
NoRange == <<>>

Init ==
    /\ csv \in SessionFiles
    /\ dir \in SessionDirs
    /\ pc = "main"
    /\ electricity_data = <<>>
    /\ start_date = NoDate
    /\ report_lines = <<>>
    /\ console = <<>>
    /\ out = <<>>
    /\ cycles = 0
    /\ range = NoRange
    /\ summary = <<>>
    /\ displays = 0
    /\ writes = <<>>
    /\ line = <<>>
    /\ dir0 = dir

\* A load that goes on to the menu whatever it read.
AfterLoadUnguarded(data) == "MainMenu"

\* main's test of the loaded dataset: "if not electricity_data: ... return".
AfterLoad(data) == IF data = <<>> THEN "NoData" ELSE "MainMenu"

\* main, up to the menu loop: load the file, leave when there is no data.
Load ==
    /\ pc = "main"
    /\ LET r == fetch_electricity_data(csv)
       IN  /\ electricity_data' = r.data
           /\ pc' = AfterLoad(r.data)
           /\ out' = IF pc' = "NoData"
                     THEN r.msg \o <<"No data available to generate reports.">>
                     ELSE r.msg
    /\ UNCHANGED <<csv, dir, start_date, report_lines, console, cycles, range,
                   summary, displays, writes, line, dir0>>

\* The chain with its else branch taken for an exit.
MainMenuBranchElseExits(selection) ==
    IF selection = <<"1">>
    THEN [pc |-> "DailyPromptStart", out |-> <<"Creating Daily Report...">>]
    ELSE IF selection = <<"2">>
    THEN [pc |-> "MonthlyPrompt", out |-> <<"Creating Monthly Report...">>]
    ELSE IF selection = <<"3">>
    THEN [pc |-> "YearlyPrompt", out |-> <<"Creating Yearly Report...">>]
    ELSE [pc |-> "Exit", out |-> <<"Exiting the program. Goodbye!">>]

\* main's if/elif chain on the selection: where the loop goes and what the
\* call it makes prints first.
MainMenuBranch(selection) ==
    IF selection = <<"1">>
    THEN [pc |-> "DailyPromptStart", out |-> <<"Creating Daily Report...">>]
    ELSE IF selection = <<"2">>
    THEN [pc |-> "MonthlyPrompt", out |-> <<"Creating Monthly Report...">>]
    ELSE IF selection = <<"3">>
    THEN [pc |-> "YearlyPrompt", out |-> <<"Creating Yearly Report...">>]
    ELSE IF selection = <<"4">>
    THEN [pc |-> "Exit", out |-> <<"Exiting the program. Goodbye!">>]
    ELSE [pc |-> "MainMenu",
          out |-> <<"Invalid selection. Please choose a valid option (1-4).">>]

\* One pass of main's loop up to the call it selects: show_main_menu and
\* the if/elif chain on its result.
MainMenuSelect(input) ==
    /\ pc = "MainMenu"
    /\ line' = Strip(input)
    /\ line' \in {<<"1">>, <<"2">>, <<"3">>} => cycles < MaxCycles
    /\ pc' = MainMenuBranch(line').pc
    /\ out' = MainMenuBranch(line').out
    /\ cycles' = IF line' \in {<<"1">>, <<"2">>, <<"3">>} THEN cycles + 1 ELSE cycles
    /\ UNCHANGED <<csv, dir, electricity_data, start_date, report_lines, console,
                   range, summary, displays, writes, dir0>>

\* A report builder returns (r.err = FALSE) or raises (r.err = TRUE).
Built(r, start, end) ==
    /\ range' = <<start, end>>
    /\ IF r.err
       THEN /\ pc' = "Crashed"
            /\ out' = <<"TypeError">>
            /\ UNCHANGED <<report_lines, summary, displays, writes>>
       ELSE /\ pc' = "ReportDisplay"
            /\ out' = <<>>
            /\ report_lines' = r.lines
            /\ summary' = r.summary
            /\ displays' = 0
            /\ writes' = <<>>

\* create_daily_report, first loop: one input for the start date.
DailyStartInput(input) ==
    /\ pc = "DailyPromptStart"
    /\ line' = Strip(input)
    /\ LET p == Strptime(Strip(input))
       IN  IF p.ok
           THEN /\ start_date' = DateTime(p.y, p.m, p.d, 0, TzOf(electricity_data))
                /\ pc' = "DailyPromptEnd"
                /\ out' = <<>>
           ELSE /\ out' = <<"Invalid date format. Please try again.">>
                /\ UNCHANGED <<pc, start_date>>
    /\ UNCHANGED <<csv, dir, electricity_data, report_lines, console, cycles,
                   range, summary, displays, writes, dir0>>

\* create_daily_report, second loop and the rest: one input for the end
\* date and, when it is accepted, the report.
DailyEndInput(input) ==
    /\ pc = "DailyPromptEnd"
    /\ line' = Strip(input)
    /\ LET p == Strptime(Strip(input))
           end_date == DateTime(p.y, p.m, p.d, 47, TzOf(electricity_data))
       IN  IF p.ok
           THEN /\ Built(DailyReport(electricity_data, start_date, end_date),
                         start_date, end_date)
                /\ start_date' = NoDate
           ELSE /\ out' = <<"Invalid date format. Please try again.">>
                /\ UNCHANGED <<pc, start_date, report_lines, range, summary,
                               displays, writes>>
    /\ UNCHANGED <<csv, dir, electricity_data, console, cycles, dir0>>

\* create_monthly_report: one input for the month and, when it is
\* accepted, the report.  int() raises ValueError, which nothing catches,
\* on a string of digits that are not all decimal.
MonthlyInput(input) ==
    /\ pc = "MonthlyPrompt"
    /\ line' = Strip(input)
    /\ LET month_str == Strip(input)
           month == IntOf(month_str)
           tz == TzOf(electricity_data)
       IN  IF IsDigit(month_str) /\ ~IntParses(month_str)
           THEN /\ pc' = "Crashed"
                /\ out' = <<"ValueError">>
                /\ UNCHANGED <<report_lines, range, summary, displays, writes>>
           ELSE IF IsDigit(month_str) /\ 1 <= month /\ month <= 12
           THEN Built(MonthlyReport(electricity_data, month),
                      MonthStart(month, tz), MonthEnd(month, tz))
           ELSE /\ out' = <<"Invalid month. Please enter a number between 1 and 12.">>
                /\ UNCHANGED <<pc, report_lines, range, summary, displays, writes>>
    /\ UNCHANGED <<csv, dir, electricity_data, start_date, console, cycles, dir0>>

\* create_yearly_report: no input.
\* A builder that takes the first reading out of the dataset as it goes.
CreateYearlyReportConsuming ==
    /\ pc = "YearlyPrompt"
    /\ Built(YearlyReport(electricity_data), YearStart(TzOf(electricity_data)),
             YearEnd(TzOf(electricity_data)))
    /\ electricity_data' = Tail(electricity_data)
    /\ UNCHANGED <<csv, dir, start_date, console, cycles, line, dir0>>

CreateYearlyReport ==
    /\ pc = "YearlyPrompt"
    /\ Built(YearlyReport(electricity_data), YearStart(TzOf(electricity_data)),
             YearEnd(TzOf(electricity_data)))
    /\ UNCHANGED <<csv, dir, electricity_data, start_date, console, cycles, line,
                   dir0>>

\* print_report_to_console, then on to show_report_menu.
PrintReportToConsole ==
    /\ pc = "ReportDisplay"
    /\ console' = <<"Report:">> \o report_lines \o <<"----------------------------------------">>
    /\ displays' = displays + 1
    /\ pc' = "ReportOutputMenu"
    /\ out' = <<"Report Output Menu:">>
    /\ UNCHANGED <<csv, dir, electricity_data, start_date, report_lines, cycles,
                   range, summary, writes, line, dir0>>

\* The loop with the break after the first option missing.
ReportMenuBreaksNotAfterWrite(selection) == selection \in {<<"2">>, <<"3">>}

\* The selections after which show_report_menu's loop breaks.
ReportMenuBreaks(selection) == selection \in {<<"1">>, <<"2">>, <<"3">>}

\* A sink call returns (w.err = FALSE) or raises OSError (w.err = TRUE),
\* which neither show_report_menu nor main catches.
Sunk(w, mode, done) ==
    /\ dir' = w.dir
    /\ writes' = Append(writes, [mode |-> mode, name |-> w.name, ok |-> ~w.err])
    /\ out' = IF w.err THEN <<"OSError">> ELSE <<done>>
    /\ pc' = IF w.err THEN "Crashed"
             ELSE IF ReportMenuBreaks(line') THEN "MainMenu" ELSE "ReportOutputMenu"

\* show_report_menu: one pass of its loop.
ReportMenuSelect(input) ==
    /\ pc = "ReportOutputMenu"
    /\ line' = Strip(input)
    /\ IF line' = <<"1">>
       THEN \E io \in IoOutcomes(report_lines) :
                Sunk(write_report_to_file(dir, report_lines, io), "overwrite",
                     "Report written to 'report.txt'.")
       ELSE IF line' = <<"2">>
       THEN \E io \in IoOutcomes(report_lines) :
                Sunk(create_report_file(dir, report_lines, io), "new",
                     "Report written to new file.")
       ELSE IF line' = <<"3">>
       THEN /\ out' = <<"Returning to Main Menu...">>
            /\ pc' = IF ReportMenuBreaks(line') THEN "MainMenu" ELSE "ReportOutputMenu"
            /\ UNCHANGED <<dir, writes>>
       ELSE /\ out' = <<"Please select an option (1-3): ">>
            /\ pc' = IF ReportMenuBreaks(line') THEN "MainMenu" ELSE "ReportOutputMenu"
            /\ UNCHANGED <<dir, writes>>
    /\ UNCHANGED <<csv, electricity_data, start_date, report_lines, console,
                   cycles, range, summary, displays, dir0>>

Next ==
    \/ Load
    \/ \E input \in MainMenuInputs : MainMenuSelect(input)
    \/ \E input \in DateInputs : DailyStartInput(input)
    \/ \E input \in DateInputs : DailyEndInput(input)
    \/ \E input \in MonthInputs : MonthlyInput(input)
    \/ CreateYearlyReport
    \/ PrintReportToConsole
    \/ \E input \in ReportMenuInputs : ReportMenuSelect(input)

Spec == Init /\ [][Next]_vars

\* ------------------------------------------------- the sink on its own
\* One process calling the two sink functions one after the other, from
\* every directory over report.txt and report_1.txt .. report_<MaxFile>.txt.
\* An OSError ends the process, as nothing in the program catches it.
MaxFile == 3
MaxSinkCalls == 3

SampleData ==
    fetch_electricity_data(OkFile(<<Header, RowA(Naive), RowB(Naive), RowC(Naive)>>)).data

SinkReports == {YearlyReport(SampleData).lines, MonthlyReport(SampleData, 2).lines}

SinkDirs == UNION {[names -> {OldText}] : names \in SUBSET (0..MaxFile)}

SinkInit ==
    /\ csv = OkFile(<<>>)
    /\ dir \in SinkDirs
    /\ dir0 = dir
    /\ pc = "sink"
    /\ electricity_data = <<>>
    /\ start_date = NoDate
    /\ report_lines = <<>>
    /\ console = <<>>
    /\ out = <<>>
    /\ cycles = 0
    /\ range = NoRange
    /\ summary = <<>>
    /\ displays = 0
    /\ writes = <<>>
    /\ line = <<>>

SinkCalled(w, mode) ==
    /\ dir' = w.dir
    /\ writes' = Append(writes, [mode |-> mode, name |-> w.name, ok |-> ~w.err])
    /\ pc' = IF w.err THEN "Crashed" ELSE "sink"
    /\ out' = IF w.err THEN <<"OSError">> ELSE <<>>
    /\ UNCHANGED <<csv, electricity_data, start_date, console, cycles, range,
                   summary, displays, line, dir0>>

CallWriteReportToFile(lines) ==
    /\ pc = "sink" /\ Len(writes) < MaxSinkCalls
    /\ report_lines' = lines
    /\ \E io \in IoOutcomes(lines) :
           SinkCalled(write_report_to_file(dir, lines, io), "overwrite")

CallCreateReportFile(lines) ==
    /\ pc = "sink" /\ Len(writes) < MaxSinkCalls
    /\ report_lines' = lines
    /\ \E io \in IoOutcomes(lines) :
           SinkCalled(create_report_file(dir, lines, io), "new")

SinkNext ==
    \/ \E lines \in SinkReports : CallWriteReportToFile(lines)
    \/ \E lines \in SinkReports : CallCreateReportFile(lines)

SinkSpec == SinkInit /\ [][SinkNext]_vars

\* --------------------------------------------- the aggregator on its own
\* The three calculate_* functions applied to every dataset of at most
\* MaxReadings readings drawn from AggReadings and every range of AggRanges.
MaxReadings == 3

ReadingOf(row) == convert_electricity_data(row.fields).row

AggReadings ==
    { ReadingOf(RowA(Naive)), ReadingOf(RowB(Naive)), ReadingOf(RowC(Naive)),
      ReadingOf(RowS(Naive)), ReadingOf(RowF(Naive)), ReadingOf(RowB(Utc)) }

AggDatasets == UNION {[1..n -> AggReadings] : n \in 0..MaxReadings}

AggRanges ==
    { <<DateTime(2025, 1, 1, 0, Naive), DateTime(2025, 1, 1, 47, Naive)>>,
      <<DateTime(2025, 1, 1, 24, Naive), DateTime(2025, 1, 2, 0, Naive)>>,
      <<DateTime(2025, 1, 1, 0, Naive), DateTime(2025, 1, 1, 0, Naive)>>,
      <<DateTime(2025, 1, 2, 0, Naive), DateTime(2025, 1, 1, 47, Naive)>>,
      <<YearStart(Naive), YearEnd(Naive)>>,
      <<DateTime(2025, 1, 1, 0, Plus2), DateTime(2025, 1, 1, 47, Plus2)>> }

AggInit ==
    /\ csv = OkFile(<<>>)
    /\ dir = <<>>
    /\ dir0 = dir
    /\ pc = "calculate"
    /\ electricity_data \in AggDatasets
    /\ start_date = NoDate
    /\ report_lines = <<>>
    /\ console = <<>>
    /\ out = <<>>
    /\ cycles = 0
    /\ range \in AggRanges
    /\ summary = <<>>
    /\ displays = 0
    /\ writes = <<>>
    /\ line = <<>>

\* The three calls a report builder makes, outside any report.
Calculate ==
    /\ pc = "calculate"
    /\ LET c == calculate_total_consumption(electricity_data, range[1], range[2])
           p == calculate_total_production(electricity_data, range[1], range[2])
           t == calculate_average_temperature(electricity_data, range[1], range[2])
       IN  IF c.err \/ p.err \/ t.err
           THEN pc' = "Crashed" /\ out' = <<"TypeError">> /\ summary' = <<>>
           ELSE pc' = "calculated" /\ out' = <<>> /\ summary' = <<c.val, p.val, t.val>>
    /\ UNCHANGED <<csv, dir, electricity_data, start_date, report_lines, console,
                   cycles, range, displays, writes, line, dir0>>

AggNext == Calculate

AggSpec == AggInit /\ [][AggNext]_vars

\* ------------------------------- the aggregator over a range and its parts
\* The three calculate_* functions applied to a range and to two ranges
\* that split it: here range is <<whole, first, second>> and summary holds
\* the three results in that order.  No timestamp lies between the end of
\* first and the start of second (they are one microsecond apart).
AggSplits ==
    { << <<DateTime(2025, 1, 1, 0, Naive), DateTime(2025, 1, 2, 47, Naive)>>,
         <<DateTime(2025, 1, 1, 0, Naive), DateTime(2025, 1, 1, 47, Naive)>>,
         <<DateTime(2025, 1, 2, 0, Naive), DateTime(2025, 1, 2, 47, Naive)>> >>,
      << <<DateTime(2025, 1, 1, 0, Naive), DateTime(2025, 1, 1, 47, Naive)>>,
         <<DateTime(2025, 1, 1, 0, Naive), DateTime(2025, 1, 1, 23, Naive)>>,
         <<DateTime(2025, 1, 1, 24, Naive), DateTime(2025, 1, 1, 47, Naive)>> >>,
      << <<YearStart(Naive), YearEnd(Naive)>>,
         <<YearStart(Naive), MonthEnd(1, Naive)>>,
         <<MonthStart(2, Naive), YearEnd(Naive)>> >> }

PartsInit ==
    /\ csv = OkFile(<<>>)
    /\ dir = <<>>
    /\ dir0 = dir
    /\ pc = "calculate"
    /\ electricity_data \in AggDatasets
    /\ start_date = NoDate
    /\ report_lines = <<>>
    /\ console = <<>>
    /\ out = <<>>
    /\ cycles = 0
    /\ range \in AggSplits
    /\ summary = <<>>
    /\ displays = 0
    /\ writes = <<>>
    /\ line = <<>>

\* The three calls over one range: [err, summary].
CalculateOver(data, rng) ==
    LET c == calculate_total_consumption(data, rng[1], rng[2])
        p == calculate_total_production(data, rng[1], rng[2])
        t == calculate_average_temperature(data, rng[1], rng[2])
    IN  [err |-> c.err \/ p.err \/ t.err, summary |-> <<c.val, p.val, t.val>>]

CalculateParts ==
    /\ pc = "calculate"
    /\ LET r == [i \in 1..3 |-> CalculateOver(electricity_data, range[i])]
       IN  IF \E i \in 1..3 : r[i].err
           THEN pc' = "Crashed" /\ out' = <<"TypeError">> /\ summary' = <<>>
           ELSE /\ pc' = "calculated" /\ out' = <<>>
                /\ summary' = [i \in 1..3 |-> r[i].summary]
    /\ UNCHANGED <<csv, dir, electricity_data, start_date, report_lines, console,
                   cycles, range, displays, writes, line, dir0>>

PartsNext == CalculateParts

PartsSpec == PartsInit /\ [][PartsNext]_vars

\* ------------------------------------------- the report builders on their own
\* One report built from the main menu, for more datasets and dates than a
\* whole session is followed through: readings of the years around the
\* report year, a reading that is not a number, timestamps with an offset.
ReportFiles ==
    { OkFile(<<Header, RowA(Naive), RowB(Naive), RowC(Naive)>>),
      OkFile(<<Header, RowP(Naive), RowA(Naive), RowN(Naive)>>),
      OkFile(<<Header, RowP(Utc), RowF(Utc), RowS(Utc), RowN(Utc)>>),
      OkFile(<<Header, RowC(Plus2), RowB(Utc)>>),
      OkFile(<<Header, RowNan>>),
      OkFile(<<Header, RowA(Utc), RowB(Naive)>>),
      OkFile(<<Header, RowA(Naive), RowB(Plus2)>>) }

ReportDateInputs ==
    DateInputs \cup
    { <<"0", "2", ".", "0", "1", ".", "2", "0", "2", "5">>,
      <<"2", "8", ".", "0", "2", ".", "2", "0", "2", "5">>,
      <<"2", "9", ".", "0", "2", ".", "2", "0", "2", "5">>,
      <<"3", "1", ".", "1", "2", ".", "2", "0", "2", "4">>,
      <<"0", "1", ".", "0", "1", ".", "2", "0", "2", "6">> }

ReportMonthInputs == MonthInputs \cup {<<"1">>, <<"1", "2">>, <<"0", "0", "4">>}

ReportInit ==
    /\ csv \in ReportFiles
    /\ dir = <<>>
    /\ dir0 = dir
    /\ pc = "MainMenu"
    /\ electricity_data = fetch_electricity_data(csv).data
    /\ start_date = NoDate
    /\ report_lines = <<>>
    /\ console = <<>>
    /\ out = <<>>
    /\ cycles = 0
    /\ range = NoRange
    /\ summary = <<>>
    /\ displays = 0
    /\ writes = <<>>
    /\ line = <<>>

ReportNext ==
    \/ \E input \in MainMenuInputs : MainMenuSelect(input)
    \/ \E input \in ReportDateInputs : DailyStartInput(input)
    \/ \E input \in ReportDateInputs : DailyEndInput(input)
    \/ \E input \in ReportMonthInputs : MonthlyInput(input)
    \/ CreateYearlyReport
    \/ PrintReportToConsole

ReportSpec == ReportInit /\ [][ReportNext]_vars

\* ================================================================ claims
Last(s) == s[Len(s)]

NoDataMessage == "No data available to generate reports."

\* A line of the file that starts with a timestamp, and one that also has
\* three numbers after it.
IsDataLine(l) == l.fields[1].kind = "ts" /\ ~(Len(l.fields) = 1 /\ l.eol)

IsWellFormed(l) ==
    Len(l.fields) >= 4 /\ \A i \in 2..4 : l.fields[i].kind \in {"num", "nan"}

\* The load cannot yield a reading: the file cannot be read, holds no data
\* line, or holds a data line that cannot be converted.
YieldsNoData(f) ==
    \/ f.status # "ok"
    \/ \A i \in 1..Len(f.lines) : ~IsDataLine(f.lines[i])
    \/ \E i \in 1..Len(f.lines) : IsDataLine(f.lines[i]) /\ ~IsWellFormed(f.lines[i])

\* C1: when the initial load yields an empty dataset, whatever the reason,
\* the session prints the no-data message and ends there: the main menu is
\* never shown, no report is built or displayed and no file is written.
C1_EmptyLoadEndsSession ==
    (pc # "main" /\ YieldsNoData(csv)) =>
        /\ pc = "NoData"
        /\ electricity_data = <<>>
        /\ Last(out) = NoDataMessage
        /\ report_lines = <<>> /\ console = <<>> /\ range = NoRange
        /\ cycles = 0 /\ writes = <<>> /\ dir = dir0
        /\ ~ENABLED Next

\* C1 witness: a session ended at the no-data message after a file with a
\* valid data line and a malformed one was read.
C1_Witness ==
    /\ pc = "NoData"
    /\ csv.status = "ok"
    /\ \E i \in 1..Len(csv.lines) : IsDataLine(csv.lines[i]) /\ IsWellFormed(csv.lines[i])
    /\ \E i \in 1..Len(csv.lines) : IsDataLine(csv.lines[i]) /\ ~IsWellFormed(csv.lines[i])

PromptStates == {"DailyPromptStart", "DailyPromptEnd", "MonthlyPrompt"}

\* C2: once the menu loop is entered the session ends only by selection "4"
\* at MainMenu: no input given in DailyPrompt, MonthlyPrompt or
\* ReportOutputMenu ends it, and option 3 of ReportOutputMenu returns to
\* MainMenu.
C2_EndsOnlyByMainMenuExit ==
    [][/\ (pc' \in {"Exit", "Crashed"} /\ pc \notin {"Exit", "Crashed"})
            => (pc = "MainMenu" /\ line' = <<"4">> /\ pc' = "Exit")
       /\ (pc = "ReportOutputMenu" /\ line' = <<"3">>) => pc' = "MainMenu"]_vars

\* C3: at MainMenu an input that is not 1, 2, 3 or 4 after stripping leaves
\* the session where it is: the menu is shown again, nothing is built,
\* displayed or written, the dataset is unchanged; and such an input is
\* accepted again and again.
C3_InvalidMainMenuInput ==
    /\ [][(pc = "MainMenu" /\ line' \notin {<<"1">>, <<"2">>, <<"3">>, <<"4">>})
             => /\ pc' = "MainMenu"
                /\ UNCHANGED <<csv, dir, electricity_data, start_date, report_lines,
                               console, cycles, range, summary, displays, writes>>]_vars
    /\ [](pc = "MainMenu" =>
             ENABLED (\E input \in MainMenuInputs :
                         /\ Strip(input) \notin {<<"1">>, <<"2">>, <<"3">>, <<"4">>}
                         /\ MainMenuSelect(input)))

\* C3 witness: the main menu after the input "9", a report cycle behind it.
C3_Witness ==
    /\ pc = "MainMenu"
    /\ line = <<"9">>
    /\ out = <<"Invalid selection. Please choose a valid option (1-4).">>
    /\ report_lines # <<>>

\* C4: a report cycle runs MainMenu -> prompt -> ReportDisplay ->
\* ReportOutputMenu -> MainMenu: the report is displayed exactly once before
\* the output menu is offered, the output menu is entered only with the
\* report just built, and when the output menu is left the next state is
\* MainMenu.
C4_ReportCycleOrder ==
    /\ [](pc = "ReportOutputMenu" =>
             /\ displays = 1 /\ writes = <<>> /\ report_lines # <<>>
             /\ console = <<"Report:">> \o report_lines
                              \o <<"----------------------------------------">>)
    /\ [][/\ pc = "MainMenu" =>
                pc' \in {"MainMenu", "DailyPromptStart", "MonthlyPrompt",
                         "YearlyPrompt", "Exit"}
          /\ pc = "DailyPromptStart" => pc' \in {"DailyPromptStart", "DailyPromptEnd"}
          /\ pc = "DailyPromptEnd" => pc' \in {"DailyPromptEnd", "ReportDisplay"}
          /\ pc = "MonthlyPrompt" => pc' \in {"MonthlyPrompt", "ReportDisplay"}
          /\ pc = "YearlyPrompt" => pc' = "ReportDisplay"
          /\ pc = "ReportDisplay" => pc' = "ReportOutputMenu"
          /\ pc = "ReportOutputMenu" => pc' \in {"ReportOutputMenu", "MainMenu"}]_vars

\* The files of d other than name are those of e other than name, unchanged.
SameExcept(d, e, name) ==
    /\ DOMAIN d \ {name} = DOMAIN e \ {name}
    /\ \A n \in DOMAIN d \ {name} : d[n] = e[n]

\* C5: in ReportOutputMenu, "1" makes exactly one write, to report.txt, "2"
\* exactly one write, to a new numbered file, "3" none; each of the three
\* leaves the menu; any other input writes nothing and asks again; so at
\* most one file is written per report built.
C5_ReportMenuWrites ==
    /\ [](Len(writes) <= 1)
    /\ [][pc = "ReportOutputMenu" =>
            /\ line' = <<"1">> =>
                  /\ pc' # "ReportOutputMenu"
                  /\ Len(writes') = Len(writes) + 1
                  /\ Last(writes').name = ReportTxt
                  /\ SameExcept(dir, dir', ReportTxt)
                  /\ pc' = "MainMenu" =>
                        (ReportTxt \in DOMAIN dir' /\ dir'[ReportTxt] = FileText(report_lines))
            /\ line' = <<"2">> =>
                  /\ pc' # "ReportOutputMenu"
                  /\ Len(writes') = Len(writes) + 1
                  /\ Last(writes').name >= 1
                  /\ Last(writes').name \notin DOMAIN dir
                  /\ SameExcept(dir, dir', Last(writes').name)
                  /\ pc' = "MainMenu" =>
                        (/\ Last(writes').name \in DOMAIN dir'
                         /\ dir'[Last(writes').name] = FileText(report_lines))
            /\ line' = <<"3">> =>
                  pc' = "MainMenu" /\ dir' = dir /\ writes' = writes
            /\ line' \notin {<<"1">>, <<"2">>, <<"3">>} =>
                  pc' = "ReportOutputMenu" /\ dir' = dir /\ writes' = writes]_vars

\* C5 witness: back at the main menu after the one write of a cycle went to
\* a new numbered file.
C5_Witness ==
    /\ pc = "MainMenu"
    /\ Len(writes) = 1 /\ writes[1].mode = "new" /\ writes[1].ok
    /\ dir # dir0

\* The sink calls of the log that created a numbered file.
NewWrites == {i \in 1..Len(writes) : writes[i].mode = "new"}

\* C6: create_report_file writes to report_<n>.txt for the smallest n >= 1
\* for which no file exists: whatever files exist and whatever was written
\* before, no file that existed before the call is changed by it, and k
\* calls create k distinct new files (report_1.txt, report_2.txt, ... from a
\* directory without numbered reports).
C6_NewFileNeverOverwrites ==
    /\ [][(Len(writes') = Len(writes) + 1 /\ Last(writes').mode = "new") =>
            LET n == Last(writes').name
            IN  /\ n >= 1 /\ n \notin DOMAIN dir
                /\ \A m \in 1..(n - 1) : m \in DOMAIN dir
                /\ \A f \in DOMAIN dir : f \in DOMAIN dir' /\ dir'[f] = dir[f]
                /\ Last(writes').ok =>
                      (/\ DOMAIN dir' = DOMAIN dir \cup {n}
                       /\ dir'[n] = FileText(report_lines'))]_vars
    /\ [](pc = "sink" =>
             /\ \A i, j \in NewWrites : i # j => writes[i].name # writes[j].name
             /\ {writes[i].name : i \in NewWrites} = DOMAIN dir \ (DOMAIN dir0 \cup {ReportTxt})
             /\ \A f \in DOMAIN dir0 \ {ReportTxt} : dir[f] = dir0[f]
             /\ (DOMAIN dir0 \subseteq {ReportTxt} /\ NewWrites = 1..Len(writes))
                   => \A i \in 1..Len(writes) : writes[i].name = i)

\* C6 witness: report_1.txt and report_3.txt existed; two calls created
\* report_2.txt and then report_4.txt.
C6_Witness ==
    /\ pc = "sink"
    /\ DOMAIN dir0 = {1, 3}
    /\ Len(writes) = 2
    /\ writes[1] = [mode |-> "new", name |-> 2, ok |-> TRUE]
    /\ writes[2] = [mode |-> "new", name |-> 4, ok |-> TRUE]
    /\ dir[1] = OldText /\ dir[3] = OldText

\* C7: an I/O error raised while a report is written, in either sink mode,
\* does not end the session: the report in memory is unchanged and the user
\* can write the same report again through ReportOutputMenu.
C7_WriteErrorKeepsSession ==
    [][(pc = "ReportOutputMenu" /\ Len(writes') = Len(writes) + 1 /\ ~Last(writes').ok)
          => /\ pc' \in {"ReportOutputMenu", "MainMenu"}
             /\ report_lines' = report_lines]_vars

\* int(line) is a month: decimal digits with a value in 1..12.
IsMonth(s) == s # <<>> /\ AllDecimal(s) /\ IntOf(s) \in 1..12

\* C8: in DailyPrompt and MonthlyPrompt an input that is no dd.mm.yyyy date
\* (no integer in 1..12) asks for the same field again: the session does
\* not end, an accepted start date is kept while the end date is asked
\* again, and a prompt is left only with a date that parses (a month in
\* 1..12).
C8_InvalidPromptInputAsksAgain ==
    [][/\ (pc \in {"DailyPromptStart", "DailyPromptEnd"} /\ ~Strptime(line').ok)
            => (pc' = pc /\ start_date' = start_date)
       /\ (pc = "MonthlyPrompt" /\ ~IsMonth(line')) => pc' = pc
       /\ (pc \in PromptStates /\ pc' # pc) =>
              IF pc = "MonthlyPrompt" THEN IsMonth(line') ELSE Strptime(line').ok]_vars

\* C9: every range passed to the calculate_* functions has start <= end.
C9_RangeStartBeforeEnd ==
    range # NoRange => DtLe(range[1], range[2])

\* The position of a datetime on its time line.
Instant(dt) == IF dt.tz.aware THEN UtcInstant(dt) ELSE LocalInstant(dt)

Covers(rng, e) == Instant(rng[1]) <= Instant(e[1]) /\ Instant(e[1]) <= Instant(rng[2])

\* The readings of a dataset inside a range, both bounds included, in
\* dataset order.
Included(data, rng) == SelectSeq(data, LAMBDA e : Covers(rng, e))

\* The floating point sum of a column, accumulated from the first reading
\* to the last.
RECURSIVE SumInOrder(_, _)
SumInOrder(rows, col) ==
    IF rows = <<>> THEN 0
    ELSE FAdd(SumInOrder(SubSeq(rows, 1, Len(rows) - 1), col), Last(rows)[col])

SummaryOf(rows) ==
    <<SumInOrder(rows, 2), SumInOrder(rows, 3),
      IF rows = <<>> THEN 0 ELSE FDiv(SumInOrder(rows, 4), Len(rows))>>

AllComparable(data, rng) ==
    \A i \in 1..Len(data) : data[i][1].tz.aware = rng[1].tz.aware

Reordered(data, q) == [i \in 1..Len(data) |-> data[q[i]]]

\* C10 as stated: a reading counts towards the two totals and the average
\* iff start <= timestamp <= end, and the totals and the average are those
\* of the included readings whatever the order of the dataset.
C10_TotalsWhateverTheOrder ==
    pc = "calculated" =>
        \A q \in Permutations(1..Len(electricity_data)) :
            summary = SummaryOf(Included(Reordered(electricity_data, q), range))

\* C10 as amended: for a dataset whose timestamps compare with the bounds, a
\* reading counts iff start <= timestamp <= end, the same readings count for
\* all three values, each total is the floating point sum of its field over
\* them accumulated in dataset order, and the average is that sum of field 3
\* divided by their number (0.0 when there is none); the readings included
\* and their number do not depend on the order of the dataset.
C10_TotalsInDatasetOrder ==
    pc # "calculate" =>
        IF AllComparable(electricity_data, range)
        THEN /\ pc = "calculated"
             /\ summary = SummaryOf(Included(electricity_data, range))
             /\ \A q \in Permutations(1..Len(electricity_data)) :
                    LET inc == Included(Reordered(electricity_data, q), range)
                    IN  /\ Len(inc) = Len(Included(electricity_data, range))
                        /\ {inc[i] : i \in 1..Len(inc)}
                              = {electricity_data[i] : i \in
                                    {j \in 1..Len(electricity_data) :
                                        Covers(range, electricity_data[j])}}
        ELSE pc = "Crashed"

\* C10 witness: a range with a reading exactly at its start, another
\* exactly at its end and one before it, the first two summed.
C10_Witness ==
    /\ pc = "calculated"
    /\ range[1] # range[2]
    /\ \E i, j, k \in 1..Len(electricity_data) :
          /\ Instant(electricity_data[i][1]) = Instant(range[1])
          /\ Instant(electricity_data[j][1]) = Instant(range[2])
          /\ Instant(electricity_data[k][1]) < Instant(range[1])
          /\ summary[1] = FAdd(electricity_data[i][2], electricity_data[j][2])
          /\ summary[1] > electricity_data[i][2]

\* C11: over an empty dataset, or over a range no reading of the dataset
\* falls in, the three calculations return total consumption 0.0, total
\* production 0.0 and average temperature 0.0, and none of them raises (no
\* division by the zero count).
C11_NothingIncludedGivesZero ==
    (/\ pc # "calculate"
     /\ AllComparable(electricity_data, range)
     /\ \A i \in 1..Len(electricity_data) : ~Covers(range, electricity_data[i]))
        => (pc = "calculated" /\ summary = <<0, 0, 0>>)

\* C11 witness: the calculations done over a range with start before end,
\* a reading before it and a reading after it and none in it.
C11_Witness ==
    /\ pc = "calculated"
    /\ summary = <<0, 0, 0>>
    /\ Instant(range[1]) < Instant(range[2])
    /\ \E i, j \in 1..Len(electricity_data) :
          /\ Instant(electricity_data[i][1]) < Instant(range[1])
          /\ Instant(electricity_data[j][1]) > Instant(range[2])
    /\ \A i \in 1..Len(electricity_data) : ~Covers(range, electricity_data[i])

\* The sum of a column in exact arithmetic, in least units.
RECURSIVE ExactSum(_, _)
ExactSum(rows, col) ==
    IF rows = <<>> THEN 0 ELSE Head(rows)[col] + ExactSum(Tail(rows), col)

\* The readings of the dataset in the whole range and in its two parts.
InWhole == Included(electricity_data, range[1])
InFirst == Included(electricity_data, range[2])
InSecond == Included(electricity_data, range[3])

\* C12 as stated: for a range split into two parts that cover it, each
\* total over the range equals the sum of the totals over the parts, and
\* the average over the range equals the sum of the two temperature sums
\* divided by the sum of the two counts.
C12_TotalsAddUp ==
    pc = "calculated" =>
        /\ summary[1][1] = FAdd(summary[2][1], summary[3][1])
        /\ summary[1][2] = FAdd(summary[2][2], summary[3][2])
        /\ summary[1][3] =
              IF InWhole = <<>> THEN 0
              ELSE FDiv(FAdd(SumInOrder(InFirst, 4), SumInOrder(InSecond, 4)),
                        Len(InFirst) + Len(InSecond))

\* C12 as amended: for a dataset whose timestamps compare with the bounds,
\* every reading in the range is in exactly one of the two parts, so the
\* counts add and the exact sums of each field add; each computed total over
\* the range is the floating point sum over the readings of both parts
\* accumulated in dataset order, and equals the sum of the totals over the
\* parts whenever none of the three accumulations rounded; the average over
\* the range is the temperature sum so accumulated divided by the sum of
\* the two counts.
C12_PartsAddExactly ==
    pc # "calculate" =>
        IF AllComparable(electricity_data, range[1])
        THEN /\ pc = "calculated"
             /\ \A i \in 1..Len(electricity_data) :
                    LET e == electricity_data[i]
                    IN  /\ Covers(range[1], e) <=> (Covers(range[2], e) \/ Covers(range[3], e))
                        /\ ~(Covers(range[2], e) /\ Covers(range[3], e))
             /\ Len(InWhole) = Len(InFirst) + Len(InSecond)
             /\ \A r \in 1..3 : summary[r] = SummaryOf(Included(electricity_data, range[r]))
             /\ \A col \in 2..4 :
                    ExactSum(InWhole, col) = ExactSum(InFirst, col) + ExactSum(InSecond, col)
             /\ \A col \in 2..3 :
                    (\A r \in 1..3 : summary[r][col - 1]
                                        = ExactSum(Included(electricity_data, range[r]), col))
                        => summary[1][col - 1] = FAdd(summary[2][col - 1], summary[3][col - 1])
             /\ summary[1][3] =
                    IF InWhole = <<>> THEN 0
                    ELSE FDiv(SumInOrder(InWhole, 4), Len(InFirst) + Len(InSecond))
        ELSE pc = "Crashed"

\* C12 witness: both parts hold readings, the totals over the parts add up
\* to the totals over the range, and the average over the range is not the
\* mean of the averages over the parts.
C12_Witness ==
    /\ pc = "calculated"
    /\ InFirst # <<>> /\ InSecond # <<>>
    /\ summary[1][1] = summary[2][1] + summary[3][1]
    /\ summary[1][2] = summary[2][2] + summary[3][2]
    /\ 2 * summary[1][3] # summary[2][3] + summary[3][3]

\* The timezone of the dataset: that of its first reading.
DatasetTz == electricity_data[1][1].tz

\* The calendar day, counted from 01.01.0001, on which a reading falls on a
\* clock set to the timezone tz.
LocalDay(e, tz) ==
    IF e[1].tz.aware THEN (UtcInstant(e[1]) + 2 * tz.off) \div 48
    ELSE Ordinal(e[1].y, e[1].m, e[1].d)

\* The readings that fall on the days first..last of that clock.
OnDays(data, first, last, tz) ==
    SelectSeq(data, LAMBDA e : first <= LocalDay(e, tz) /\ LocalDay(e, tz) <= last)

\* C13: a daily report for the accepted dates start_date and end_date is
\* computed over the range start_date 00:00:00.000000 to end_date
\* 23:59:59.999999 in the dataset's timezone: its values are those of
\* exactly the readings that fall, in that timezone, on a day from
\* start_date to end_date (00:00 of start_date and every time of end_date
\* included, 00:00 of the next day and everything before start_date not).
C13_DailyRange ==
    [][/\ (pc = "DailyPromptStart" /\ pc' # pc) =>
             LET p == Strptime(line')
             IN  /\ p.ok /\ pc' = "DailyPromptEnd"
                 /\ start_date' = DateTime(p.y, p.m, p.d, 0, DatasetTz)
       /\ (pc = "DailyPromptEnd" /\ pc' # pc) =>
             LET p == Strptime(line')
                 rng == <<start_date, DateTime(p.y, p.m, p.d, 47, DatasetTz)>>
             IN  /\ p.ok /\ range' = rng
                 /\ IF AllComparable(electricity_data, rng)
                    THEN /\ pc' = "ReportDisplay"
                         /\ summary' =
                               SummaryOf(OnDays(electricity_data,
                                                Ordinal(start_date.y, start_date.m, start_date.d),
                                                Ordinal(p.y, p.m, p.d), DatasetTz))
                    ELSE pc' = "Crashed"]_vars

IsDailyReport == report_lines # <<>> /\ report_lines[1][1] = "Daily Report for "

\* C13 witness: a daily report displayed whose range has a reading at its
\* first instant, which is counted, and a reading one microsecond before
\* it, which is not.
C13_Witness ==
    /\ pc = "ReportDisplay" /\ IsDailyReport
    /\ \E i, j \in 1..Len(electricity_data) :
          /\ Instant(electricity_data[i][1]) = Instant(range[1])
          /\ Instant(electricity_data[j][1]) = Instant(range[1]) - 1
          /\ summary[1] = electricity_data[i][2]

\* The days of the months of a year by the calendar rule: February has 29
\* days in a leap year (divisible by 4, and by 400 if by 100) and 28 in any
\* other year.
CalendarDays(y, m) ==
    IF m = 2 /\ (y % 4 = 0) /\ (y % 100 # 0 \/ y % 400 = 0) THEN 29
    ELSE <<31, 28, 31, 30, 31, 30, 31, 31, 30, 31, 30, 31>>[m]

IsMonthlyReport == report_lines # <<>> /\ report_lines[1][1] = "Monthly Report for "

\* C14: the monthly report for the accepted month m is computed over the
\* range from day 1 of m at 00:00:00.000000 to the last day of m at
\* 23:59:59.999999, the last day being the number of days the calendar rule
\* gives m in the report year (28 for February when that year is no leap
\* year, 29 when it is); its values are those of the readings on those days
\* and its title names the month.
C14_MonthlyRange ==
    (pc = "ReportDisplay" /\ IsMonthlyReport) =>
        LET m == IntOf(line)
            last == CalendarDays(ReportYear, m)
        IN  /\ m \in 1..12
            /\ range = <<DateTime(ReportYear, m, 1, 0, DatasetTz),
                         DateTime(ReportYear, m, last, 47, DatasetTz)>>
            /\ (Instant(range[2]) + 1 - Instant(range[1])) = 48 * last
            /\ m = 2 => (Instant(range[2]) + 1 - Instant(range[1])) \div 48
                            = IF ReportYear % 4 = 0 /\ (ReportYear % 100 # 0 \/ ReportYear % 400 = 0)
                              THEN 29 ELSE 28
            /\ summary = SummaryOf(OnDays(electricity_data,
                                          Ordinal(ReportYear, m, 1),
                                          Ordinal(ReportYear, m, 1) + last - 1, DatasetTz))
            /\ report_lines[1] = <<"Monthly Report for ", MonthNames[m]>>

\* C14 witness: the report for February displayed, its range ending on the
\* 28th at 23:59:59.999999 with a reading at that very instant counted and
\* readings of other months left out.
C14_Witness ==
    /\ pc = "ReportDisplay" /\ IsMonthlyReport
    /\ range[1].m = 2 /\ range[2].d = 28 /\ range[2].slot = 47
    /\ Len(Included(electricity_data, range)) < Len(electricity_data)
    /\ \E i \in 1..Len(electricity_data) :
          /\ Instant(electricity_data[i][1]) = Instant(range[2])
          /\ summary[1] = electricity_data[i][2]

IsYearlyReport == report_lines # <<>> /\ report_lines[1][1] = "Yearly Report for 2025"

\* C15: the yearly report is computed over the range 1 January
\* 00:00:00.000000 to 31 December 23:59:59.999999 of the report year: its
\* values are those of exactly the readings that fall in that year, and its
\* title names the year.
C15_YearlyRange ==
    (pc = "ReportDisplay" /\ IsYearlyReport) =>
        /\ range = <<DateTime(ReportYear, 1, 1, 0, DatasetTz),
                     DateTime(ReportYear, 12, 31, 47, DatasetTz)>>
        /\ summary = SummaryOf(OnDays(electricity_data,
                                      Ordinal(ReportYear, 1, 1),
                                      Ordinal(ReportYear + 1, 1, 1) - 1, DatasetTz))
        /\ report_lines[1] = <<"Yearly Report for 2025">>
        /\ ReportYear = 2025

\* C15 witness: the yearly report displayed for a dataset with a reading
\* in the last microsecond of the year before and a reading at 00:00 of
\* 1 January of the year after, neither counted.
C15_Witness ==
    /\ pc = "ReportDisplay" /\ IsYearlyReport
    /\ \E i, j, k \in 1..Len(electricity_data) :
          /\ Instant(electricity_data[i][1]) = Instant(range[1]) - 1
          /\ Instant(electricity_data[j][1]) = Instant(range[2]) + 1
          /\ Covers(range, electricity_data[k])
          /\ summary[1] = electricity_data[k][2]

\* The structurally valid data lines of a file, in file order: a timestamp
\* and three numbers.
ValidLines(f) == SelectSeq(f.lines, LAMBDA l : IsDataLine(l) /\ IsWellFormed(l))

\* The reading a valid line stands for.
ReadingOfLine(l) ==
    <<l.fields[1].dt, FloatOf(l.fields[2]), FloatOf(l.fields[3]), FloatOf(l.fields[4])>>

\* C16: the dataset loaded from a file that can be read holds exactly one
\* reading per structurally valid data line, in file order (so its length
\* is the number of such lines); every line whose first field is no
\* timestamp is left out, the header included, and none raises an error.
C16_OneReadingPerValidLine ==
    (pc # "main" /\ csv.status = "ok") =>
        /\ Len(electricity_data) = Len(ValidLines(csv))
        /\ \A i \in 1..Len(electricity_data) :
               electricity_data[i] = ReadingOfLine(ValidLines(csv)[i])

\* C17: a data line that is malformed (its timestamp parses but a number
\* does not, or fields are missing) is skipped and the load goes on: every
\* valid line of the file, before and after it, is in the dataset.
C17_MalformedLineSkipped ==
    (/\ pc # "main" /\ csv.status = "ok"
     /\ \E i \in 1..Len(csv.lines) :
            IsDataLine(csv.lines[i]) /\ ~IsWellFormed(csv.lines[i]))
        => \A i \in 1..Len(ValidLines(csv)) :
              \E j \in 1..Len(electricity_data) :
                  electricity_data[j] = ReadingOfLine(ValidLines(csv)[i])

\* The load fails: the file cannot be opened or read, or a data line of it
\* cannot be converted.
LoadFails(f) ==
    \/ f.status # "ok"
    \/ \E i \in 1..Len(f.lines) : IsDataLine(f.lines[i]) /\ ~IsWellFormed(f.lines[i])

\* C18: fetch_electricity_data raises nothing: a file that is not found, a
\* file that may not be read and any other failure while reading or
\* converting each print their own message and give the empty dataset, and
\* main goes on to its no-data exit.
C18_LoadErrorsGiveEmptyDataset ==
    (pc # "main" /\ LoadFails(csv)) =>
        /\ pc = "NoData"
        /\ electricity_data = <<>>
        /\ out = <<IF csv.status = "missing" THEN "File not found"
                   ELSE IF csv.status = "denied" THEN "Permission denied"
                   ELSE "Unexpected error",
                   NoDataMessage>>

\* C18 witness: the no-data exit reached after the permission-denied
\* message.
C18_Witness ==
    /\ pc = "NoData"
    /\ csv.status = "denied"
    /\ out = <<"Permission denied", NoDataMessage>>

\* The float of the fraction n/d, for a fraction a float holds exactly.
Float(n, d) == (n * Pow2(FracBits)) \div d

\* The dataset of the scenario: 2025-01-01T00:00 (1.0, 0.5, 2.0),
\* 2025-01-01T12:00 (2.0, 1.0, 4.0), 2025-01-02T00:00 (3.0, 1.5, 6.0).
ScenarioData ==
    << <<DateTime(2025, 1, 1, 0, Naive), Float(1, 1), Float(1, 2), Float(2, 1)>>,
       <<DateTime(2025, 1, 1, 24, Naive), Float(2, 1), Float(1, 1), Float(4, 1)>>,
       <<DateTime(2025, 1, 2, 0, Naive), Float(3, 1), Float(3, 2), Float(6, 1)>> >>

ScenarioRange == <<DateTime(2025, 1, 1, 0, Naive), DateTime(2025, 1, 1, 47, Naive)>>

\* C19: for that dataset the daily report for 01.01.2025 to 01.01.2025
\* counts exactly the first two readings and reads "3,00 kWh" for the total
\* consumption, "1,50 kWh" for the total production and "3,00 °C" for the
\* average temperature.
C19_Scenario ==
    (/\ pc = "ReportDisplay" /\ IsDailyReport
     /\ electricity_data = ScenarioData /\ range = ScenarioRange) =>
        /\ summary = <<Float(3, 1), Float(3, 2), Float(3, 1)>>
        /\ summary = SummaryOf(SubSeq(electricity_data, 1, 2))
        /\ report_lines =
              << <<"Daily Report for ", "0", "1", ".", "0", "1", ".", "2", "0", "2", "5",
                   " to ", "0", "1", ".", "0", "1", ".", "2", "0", "2", "5">>,
                 <<"Total Consumption: ", "3", ",", "0", "0", " kWh">>,
                 <<"Total Production: ", "1", ",", "5", "0", " kWh">>,
                 <<"Average Temperature: ", "3", ",", "0", "0", " °C">> >>

\* C19 witness: that report on display, asked for as 1.1.2025 to 1.1.2025.
C19_Witness ==
    /\ pc = "ReportDisplay"
    /\ electricity_data = ScenarioData /\ range = ScenarioRange
    /\ line = <<"1", ".", "1", ".", "2", "0", "2", "5">>
    /\ report_lines[2] = <<"Total Consumption: ", "3", ",", "0", "0", " kWh">>
    /\ report_lines[4] = <<"Average Temperature: ", "3", ",", "0", "0", " °C">>

\* The text of the value of a metric line: what stands between its label
\* and its unit.
ValueText(l) == SubSeq(l, 2, Len(l) - 1)

\* One comma, two decimal digits after it and nothing more, digits (after
\* an optional sign) before it, and no period.
IsTwoDecimalsWithComma(t) ==
    /\ Len(t) >= 4
    /\ t[Len(t) - 2] = ","
    /\ \A i \in 1..Len(t) : t[i] # "."
    /\ \A i \in 1..Len(t) : (t[i] = ",") => (i = Len(t) - 2)
    /\ IsDecimalChar(t[Len(t) - 1]) /\ IsDecimalChar(t[Len(t)])
    /\ LET whole == SubSeq(t, 1, Len(t) - 3)
           digits == IF Head(whole) = "-" THEN Tail(whole) ELSE whole
       IN  digits # <<>> /\ \A i \in 1..Len(digits) : IsDecimalChar(digits[i])

\* C20: every value of every report, daily, monthly or yearly, total or
\* average, is written with exactly one comma, exactly two digits after it
\* and no period.
C20_TwoDecimalsWithComma ==
    report_lines # <<>> =>
        \A i \in 2..4 : IsTwoDecimalsWithComma(ValueText(report_lines[i]))

\* C21: write_report_to_file writes to the one path report.txt: after a
\* write that completes the file holds exactly the lines of the report
\* written, each followed by a line break, and nothing of what it held
\* before; no report_<n>.txt is created or changed by it.
C21_OverwriteReplacesReportTxt ==
    [][(Len(writes') = Len(writes) + 1 /\ Last(writes').mode = "overwrite") =>
          /\ Last(writes').name = ReportTxt
          /\ DOMAIN dir' \ {ReportTxt} = DOMAIN dir \ {ReportTxt}
          /\ \A n \in DOMAIN dir \ {ReportTxt} : dir'[n] = dir[n]
          /\ Last(writes').ok =>
                /\ ReportTxt \in DOMAIN dir'
                /\ Len(dir'[ReportTxt]) = Len(report_lines')
                /\ \A i \in 1..Len(report_lines') :
                       dir'[ReportTxt][i] = report_lines'[i] \o <<"\n">>]_vars

\* C21 witness: report.txt held an earlier report and numbered reports
\* stood next to it; two reports were written to it one after the other
\* and it holds the second one only.
C21_Witness ==
    /\ pc = "sink"
    /\ ReportTxt \in DOMAIN dir0 /\ DOMAIN dir0 # {ReportTxt}
    /\ Len(writes) = 2
    /\ \A i \in 1..2 : writes[i].mode = "overwrite" /\ writes[i].ok
    /\ dir[ReportTxt] = FileText(report_lines)
    /\ DOMAIN dir = DOMAIN dir0

(***************************************************************************)
(* Two runs of create_report_file side by side in one directory.  Each     *)
(* process steps through the function's body: the os.path.exists test of   *)
(* the loop, the open(filename, "w") that creates or empties the file,     *)
(* and the end of the with block, where the buffered lines reach the file. *)
(* Here pc maps a process to its position, its counter and the number of   *)
(* calls it has finished, and report_lines maps a process to the report it *)
(* writes.                                                                 *)
(***************************************************************************)
RaceCalls == 2

RaceReports == <<YearlyReport(SampleData).lines, MonthlyReport(SampleData, 2).lines>>

\* What is left of a longer text that another handle wrote to the same file.
Remainder == <<"the end of the other report">>

\* The test skipped: the first name is taken whether it exists or not.
ExistsCheckSkipped(d, counter) == [at |-> "open", counter |-> counter]

\* if not os.path.exists(filename): ... else counter += 1
ExistsCheck(d, counter) ==
    IF counter \in DOMAIN d THEN [at |-> "exists", counter |-> counter + 1]
    ELSE [at |-> "open", counter |-> counter]

\* The buffered lines written from offset 0 over what the file holds: a
\* file another handle has written since this one was opened keeps what
\* lies past the end of the new text, if it is longer.
Flushed(held, text) ==
    IF held = <<>> THEN {text} ELSE {text, Append(text, Remainder)}

RaceInit ==
    /\ csv = OkFile(<<>>)
    /\ dir \in SinkDirs
    /\ dir0 = dir
    /\ \E n \in 1..2 :
          /\ pc = [p \in 1..n |-> [at |-> "exists", counter |-> 1, calls |-> 0]]
          /\ report_lines = [p \in 1..n |-> RaceReports[p]]
    /\ electricity_data = <<>>
    /\ start_date = NoDate
    /\ console = <<>>
    /\ out = <<>>
    /\ cycles = 0
    /\ range = NoRange
    /\ summary = <<>>
    /\ displays = 0
    /\ writes = <<>>
    /\ line = <<>>

RaceFrame ==
    UNCHANGED <<csv, electricity_data, start_date, report_lines, console, out,
                cycles, range, summary, displays, line, dir0>>

CreateReportFileExists(p) ==
    /\ pc[p].at = "exists"
    /\ LET c == ExistsCheck(dir, pc[p].counter)
       IN  pc' = [pc EXCEPT ![p] = [at |-> c.at, counter |-> c.counter,
                                    calls |-> @.calls]]
    /\ UNCHANGED <<dir, writes>>
    /\ RaceFrame

CreateReportFileOpen(p) ==
    /\ pc[p].at = "open"
    /\ dir' = Put(dir, pc[p].counter, <<>>)
    /\ pc' = [pc EXCEPT ![p].at = "write"]
    /\ UNCHANGED writes
    /\ RaceFrame

CreateReportFileWrite(p) ==
    /\ pc[p].at = "write"
    /\ \E text \in Flushed(dir[pc[p].counter], FileText(report_lines[p])) :
           dir' = Put(dir, pc[p].counter, text)
    /\ writes' = Append(writes, [mode |-> "new", name |-> pc[p].counter,
                                 ok |-> TRUE, by |-> p])
    /\ pc' = [pc EXCEPT ![p] =
                 IF @.calls + 1 < RaceCalls
                 THEN [at |-> "exists", counter |-> 1, calls |-> @.calls + 1]
                 ELSE [at |-> "done", counter |-> @.counter, calls |-> @.calls + 1]]
    /\ RaceFrame

RaceNext ==
    \E p \in DOMAIN pc :
        \/ CreateReportFileExists(p)
        \/ CreateReportFileOpen(p)
        \/ CreateReportFileWrite(p)

RaceSpec == RaceInit /\ [][RaceNext]_vars

\* Two finished calls that wrote to the same file name.
Collision ==
    \E i, j \in 1..Len(writes) : i < j /\ writes[i].name = writes[j].name

\* A process about to open a name that exists by now.
StaleCheck == \E p \in DOMAIN pc : pc[p].at = "open" /\ pc[p].counter \in DOMAIN dir

\* C22: the os.path.exists test and the open for writing are separate
\* steps.  With one process the name tested free is still free when it is
\* opened and no two calls write to the same report_<n>.txt; a state where
\* the tested name exists at the open, or where two calls wrote to one
\* name, takes two processes, and the two writes are theirs, one each.
C22_SameNameNeedsTwoProcesses ==
    /\ Len(pc) = 1 => ~Collision /\ ~StaleCheck
    /\ \A i, j \in 1..Len(writes) :
          (i < j /\ writes[i].name = writes[j].name) =>
              Len(pc) = 2 /\ writes[i].by # writes[j].by
    /\ \A n \in DOMAIN dir0 : dir[n] = dir0[n]

\* C22 witness: two processes both found report_<n>.txt free, both wrote
\* to it, and the file holds the second report only; the first is lost.
C22_Witness ==
    /\ Len(pc) = 2 /\ Len(writes) = 2
    /\ writes[1].name = writes[2].name /\ writes[1].by # writes[2].by
    /\ writes[1].name \notin DOMAIN dir0
    /\ DOMAIN dir = DOMAIN dir0 \cup {writes[1].name}
    /\ dir[writes[1].name] = FileText(report_lines[writes[2].by])
    /\ dir[writes[1].name] # FileText(report_lines[writes[1].by])

\* C23: the bounds of the range of every report kind carry the timezone
\* of the first reading of the dataset; when some reading is naive and the
\* bounds are aware, or the reverse, building the report ends in the
\* TypeError of the comparison and no totals are produced, and when every
\* reading compares with the bounds the report is built.
C23_MixedTimestampsFail ==
    /\ start_date # NoDate => start_date.tz = DatasetTz
    /\ range # NoRange =>
          /\ range[1].tz = DatasetTz /\ range[2].tz = DatasetTz
          /\ IF \E i \in 1..Len(electricity_data) :
                    electricity_data[i][1].tz.aware # range[1].tz.aware
             THEN /\ pc = "Crashed" /\ out = <<"TypeError">>
                  /\ report_lines = <<>> /\ summary = <<>>
             ELSE pc # "Crashed" /\ report_lines # <<>>

\* C23 witness: the bounds are aware as the first reading is, a later
\* reading is naive, and the build ended in the TypeError.
C23_Witness ==
    /\ pc = "Crashed" /\ out = <<"TypeError">>
    /\ range # NoRange /\ range[1].tz.aware
    /\ \E i \in 1..Len(electricity_data) : ~electricity_data[i][1].tz.aware
    /\ report_lines = <<>>

\* C24: the dataset is loaded in the one step that leaves the start of
\* main, which is never returned to, and no later step (menu selection,
\* prompt, report build, display, sink write) changes it; a request for
\* the report the session built last (same title, same range) builds the
\* same report lines again.
C24_DatasetLoadedOnce ==
    /\ [][IF pc = "main" THEN pc' # "main"
          ELSE pc' # "main" /\ electricity_data' = electricity_data]_vars
    /\ [][(/\ pc # "ReportDisplay" /\ pc' = "ReportDisplay"
           /\ report_lines # <<>>
           /\ range' = range /\ report_lines'[1] = report_lines[1])
             => report_lines' = report_lines]_vars

\* C24 witness: a report was displayed, the session went round the menu
\* loop, and the same request has just built the same lines again.
C24_Witness ==
    /\ pc = "ReportDisplay" /\ displays = 0
    /\ report_lines # <<>>
    /\ console = <<"Report:">> \o report_lines
                     \o <<"----------------------------------------">>

\* What print_report_to_console shows for a report.
Shown(lines) == <<"Report:">> \o lines \o <<"----------------------------------------">>

\* C25: a report is four lines, the title and then the total consumption,
\* total production and average temperature lines; no step between its
\* build and the end of its output menu changes it; a sink write of
\* either mode happens after the report was shown once in its cycle and
\* puts in the file, in order, the lines that were shown: all four when
\* the write completes, the first few when it fails part-way.
C25_WrittenIsShown ==
    /\ [](report_lines # <<>> =>
            /\ Len(report_lines) = 4
            /\ report_lines[1][1] \in {"Daily Report for ", "Monthly Report for ",
                                       "Yearly Report for 2025"}
            /\ report_lines[2][1] = "Total Consumption: "
            /\ report_lines[3][1] = "Total Production: "
            /\ report_lines[4][1] = "Average Temperature: ")
    /\ [][(pc = "ReportDisplay" \/ pc = "ReportOutputMenu") =>
              report_lines' = report_lines]_vars
    /\ [][Len(writes') = Len(writes) + 1 =>
            LET n == Last(writes').name
            IN  /\ pc = "ReportOutputMenu" /\ displays = 1
                /\ console = Shown(report_lines)
                /\ IF Last(writes').ok
                   THEN n \in DOMAIN dir' /\ dir'[n] = FileText(report_lines)
                   ELSE \/ dir' = dir
                        \/ \E k \in 0..3 :
                              /\ n \in DOMAIN dir'
                              /\ dir'[n] = FileText(SubSeq(report_lines, 1, k))]_vars

\* C25 witness: the second cycle of a session wrote its report to a new
\* file; the file holds the four lines shown in that cycle, and another
\* file holds the different report of the first cycle.
C25_Witness ==
    /\ pc = "MainMenu"
    /\ Len(writes) = 1 /\ writes[1].ok /\ writes[1].mode = "new"
    /\ console = Shown(report_lines)
    /\ dir[writes[1].name] = FileText(report_lines)
    /\ \E m \in DOMAIN dir \ {writes[1].name} :
          /\ Len(dir[m]) = 4
          /\ dir[m] # FileText(report_lines)
          /\ m \in DOMAIN dir0 => dir[m] # dir0[m]

(***************************************************************************)
(* The yearly report and the twelve monthly reports of one dataset side by *)
(* side.  Here range[1] and summary[1] are those of create_yearly_report,  *)
(* range[m + 1] and summary[m + 1] those of create_monthly_report for the  *)
(* month m.                                                                *)
(***************************************************************************)
MonthReadings ==
    { ReadingOf(Row(DateTime(2025, 1, 31, 47, Naive), 200, 100, 400)),
      ReadingOf(Row(DateTime(2025, 2, 1, 0, Naive), 12, 12, 300)),
      ReadingOf(RowF(Naive)),
      ReadingOf(Row(DateTime(2025, 12, 31, 47, Naive), 300, 150, 600)),
      ReadingOf(RowP(Naive)), ReadingOf(RowN(Naive)),
      ReadingOf(Row(DateTime(2025, 2, 1, 0, Plus2), 12, 12, 300)) }

MonthDatasets == UNION {[1..n -> MonthReadings] : n \in 1..MaxReadings}

MonthsInit ==
    /\ csv = OkFile(<<>>)
    /\ dir = <<>>
    /\ dir0 = dir
    /\ pc = "calculate"
    /\ electricity_data \in MonthDatasets
    /\ start_date = NoDate
    /\ report_lines = <<>>
    /\ console = <<>>
    /\ out = <<>>
    /\ cycles = 0
    /\ range = NoRange
    /\ summary = <<>>
    /\ displays = 0
    /\ writes = <<>>
    /\ line = <<>>

CalculateMonths ==
    /\ pc = "calculate"
    /\ LET tz == TzOf(electricity_data)
           y == YearlyReport(electricity_data)
           mo == [m \in 1..12 |-> MonthlyReport(electricity_data, m)]
       IN  /\ range' = << <<YearStart(tz), YearEnd(tz)>> >>
                          \o [m \in 1..12 |-> <<MonthStart(m, tz), MonthEnd(m, tz)>>]
           /\ IF y.err \/ \E m \in 1..12 : mo[m].err
              THEN pc' = "Crashed" /\ out' = <<"TypeError">> /\ summary' = <<>>
              ELSE /\ pc' = "calculated" /\ out' = <<>>
                   /\ summary' = <<y.summary>> \o [m \in 1..12 |-> mo[m].summary]
    /\ UNCHANGED <<csv, dir, electricity_data, start_date, report_lines, console,
                   cycles, displays, writes, line, dir0>>

MonthsNext == CalculateMonths

MonthsSpec == MonthsInit /\ [][MonthsNext]_vars

\* The readings of the dataset counted for the year (r = 1) or for the
\* month r - 1.
InReport(r) == Included(electricity_data, range[r])

\* The twelve monthly totals (col 1 consumption, col 2 production) added
\* up as floats, January first, and as exact numbers.
RECURSIVE MonthlyTotalsSum(_, _)
MonthlyTotalsSum(col, m) ==
    IF m = 0 THEN 0 ELSE FAdd(MonthlyTotalsSum(col, m - 1), summary[m + 1][col])

RECURSIVE MonthlyExactSum(_, _)
MonthlyExactSum(col, m) ==
    IF m = 0 THEN 0 ELSE MonthlyExactSum(col, m - 1) + ExactSum(InReport(m + 1), col)

RECURSIVE MonthlyCount(_)
MonthlyCount(m) == IF m = 0 THEN 0 ELSE MonthlyCount(m - 1) + Len(InReport(m + 1))

\* Each reading of the year is in exactly one month, a reading outside
\* the year in none.
MonthsPartitionYear ==
    \A i \in 1..Len(electricity_data) :
        LET e == electricity_data[i]
            months == {m \in 1..12 : Covers(range[m + 1], e)}
        IN  IF Covers(range[1], e) THEN Cardinality(months) = 1 ELSE months = {}

\* C26 as stated: the months partition the year and the twelve monthly
\* totals of consumption and of production add up to the yearly total.
C26_MonthlyTotalsAddUp ==
    pc = "calculated" =>
        /\ MonthsPartitionYear
        /\ \A col \in 1..2 : summary[1][col] = MonthlyTotalsSum(col, 12)

\* C26 (amended): for a dataset whose timestamps compare with the bounds,
\* each reading of the yearly range is in exactly one monthly range and a
\* reading outside it in none, so the counts add and the exact sums of
\* consumption and of production add; every total is the float sum of its
\* readings in dataset order, and the yearly total equals the float sum of
\* the monthly totals whenever none of these sums rounds.
C26_MonthsAddExactly ==
    pc # "calculate" =>
        IF AllComparable(electricity_data, range[1])
        THEN /\ pc = "calculated"
             /\ MonthsPartitionYear
             /\ Len(InReport(1)) = MonthlyCount(12)
             /\ \A r \in 1..13 : summary[r] = SummaryOf(InReport(r))
             /\ \A col \in 2..3 : ExactSum(InReport(1), col) = MonthlyExactSum(col, 12)
             /\ \A col \in 2..3 :
                    (/\ \A r \in 1..13 : summary[r][col - 1] = ExactSum(InReport(r), col)
                     /\ MonthlyTotalsSum(col - 1, 12) = MonthlyExactSum(col, 12))
                        => summary[1][col - 1] = MonthlyTotalsSum(col - 1, 12)
        ELSE pc = "Crashed"

\* C26 witness: readings of two months are counted once each, their exact
\* sums add, and the yearly total consumption differs from the sum of the
\* monthly totals.
C26_Witness ==
    /\ pc = "calculated"
    /\ Cardinality({m \in 1..12 : InReport(m + 1) # <<>>}) >= 2
    /\ Len(InReport(1)) = Len(electricity_data)
    /\ ExactSum(InReport(1), 2) = MonthlyExactSum(2, 12)
    /\ summary[1][1] # MonthlyTotalsSum(1, 12)

(***************************************************************************)
(* The weekly reports of task_d.py and task_e.py.  A record is             *)
(* <<timestamp, c1, c2, c3, p1, p2, p3>> with the six values in Wh as      *)
(* ints.  Here electricity_data is the list of the records of each file    *)
(* read (one file in task_d.py), summary[1] the daily overview of each     *)
(* file, summary[2] the weekly summary of each file and summary[3] the     *)
(* total summary; pc starts at the program that runs.                      *)
(***************************************************************************)
MaxRecords == 3

FileNames == 3

\* record[0].date()
DateOf(dt) == <<dt.y, dt.m, dt.d>>

\* date.__lt__
DateLt(a, b) ==
    \/ a[1] < b[1]
    \/ a[1] = b[1] /\ a[2] < b[2]
    \/ a[1] = b[1] /\ a[2] = b[2] /\ a[3] < b[3]

\* sorted(daily_sums.keys())
RECURSIVE SortedDates(_)
SortedDates(S) ==
    IF S = {} THEN <<>>
    ELSE LET m == CHOOSE x \in S : \A y \in S \ {x} : DateLt(x, y)
         IN  <<m>> \o SortedDates(S \ {m})

\* int / 1000: the float nearest to the quotient
DivThousand(n) == RoundRat(n * Pow2(FracBits), 1000)

\* The first loop with the test "if d not in daily_sums" left out: the
\* entry of a date starts anew at each of its records.
RECURSIVE DailySumsRestarting(_, _)
DailySumsRestarting(data, sums) ==
    IF data = <<>> THEN sums
    ELSE LET record == Head(data)
             d == DateOf(record[1])
             new == [i \in 1..7 |-> IF i = 1 THEN record[1] ELSE record[i]]
         IN  DailySumsRestarting(Tail(data),
                 [x \in DOMAIN sums \cup {d} |-> IF x = d THEN new ELSE sums[x]])

\* task_e.py, the first loop of calculate_daily_overview: daily_sums, a
\* dict from date to [first timestamp, six sums in Wh].
RECURSIVE DailySums(_, _)
DailySums(data, sums) ==
    IF data = <<>> THEN sums
    ELSE LET record == Head(data)
             d == DateOf(record[1])
             cur == IF d \in DOMAIN sums THEN sums[d]
                    ELSE <<record[1], 0, 0, 0, 0, 0, 0>>
             new == [i \in 1..7 |-> IF i = 1 THEN cur[1] ELSE cur[i] + record[i]]
         IN  DailySums(Tail(data),
                 [x \in DOMAIN sums \cup {d} |-> IF x = d THEN new ELSE sums[x]])

\* task_e.py calculate_daily_overview
calculate_daily_overview(data) ==
    LET sums == DailySums(data, <<>>)
        keys == SortedDates(DOMAIN sums)
    IN  [k \in 1..Len(keys) |->
            [i \in 1..7 |-> IF i = 1 THEN sums[keys[k]][1]
                            ELSE DivThousand(sums[keys[k]][i])]]

\* task_d.py, the first loop of calculate_daily_overview
RECURSIVE DailySumsD(_, _)
DailySumsD(data, sums) ==
    IF data = <<>> THEN sums
    ELSE LET record == Head(data)
             d == DateOf(record[1])
             cur == IF d \in DOMAIN sums THEN sums[d]
                    ELSE <<record[1], 0, 0, 0, 0, 0, 0>>
             new == [i \in 1..7 |-> IF i = 1 THEN cur[1] ELSE cur[i] + record[i]]
         IN  DailySumsD(Tail(data),
                 [x \in DOMAIN sums \cup {d} |-> IF x = d THEN new ELSE sums[x]])

\* task_d.py calculate_daily_overview
calculate_daily_overview_d(data) ==
    LET sums == DailySumsD(data, <<>>)
        keys == SortedDates(DOMAIN sums)
    IN  [k \in 1..Len(keys) |->
            [i \in 1..7 |-> IF i = 1 THEN sums[keys[k]][1]
                            ELSE DivThousand(sums[keys[k]][i])]]

\* calculate_weekly_summary: [c1, c2, c3, p1, p2, p3], each += day[i + 1]
RECURSIVE calculate_weekly_summary(_)
calculate_weekly_summary(days) ==
    IF days = <<>> THEN <<0, 0, 0, 0, 0, 0>>
    ELSE LET before == calculate_weekly_summary(SubSeq(days, 1, Len(days) - 1))
         IN  [i \in 1..6 |-> FAdd(before[i], days[Len(days)][i + 1])]

\* calculate_total_summary: each += weekly_summary[i]
RECURSIVE calculate_total_summary(_)
calculate_total_summary(weeks) ==
    IF weeks = <<>> THEN <<0, 0, 0, 0, 0, 0>>
    ELSE LET before == calculate_total_summary(SubSeq(weeks, 1, Len(weeks) - 1))
         IN  [i \in 1..6 |-> FAdd(before[i], weeks[Len(weeks)][i])]

OverviewRecords ==
    { <<DateTime(2025, 10, 13, 0, Naive), 125, 250, 375, 500, 0, 1000>>,
      <<DateTime(2025, 10, 13, 20, Naive), 250, 250, 125, 0, 125, 2000>>,
      <<DateTime(2025, 10, 12, 47, Plus2), 1000, 300, 0, 125, 125, 125>>,
      <<DateTime(2025, 11, 1, 0, Naive), 500, 125, 250, 250, 375, 0>> }

\* The records of one file; none when the file cannot be read.
WeekFiles == UNION {[1..n -> OverviewRecords] : n \in 0..MaxRecords}

\* The files read after the first one.
LaterWeekFiles ==
    { <<>>,
      << <<DateTime(2025, 11, 1, 0, Naive), 500, 125, 250, 250, 375, 0>>,
         <<DateTime(2025, 10, 13, 0, Naive), 125, 250, 375, 500, 0, 1000>> >>,
      << <<DateTime(2025, 10, 13, 20, Naive), 250, 250, 125, 0, 125, 2000>>,
         <<DateTime(2025, 10, 12, 47, Plus2), 1000, 300, 0, 125, 125, 125>>,
         <<DateTime(2025, 10, 13, 0, Naive), 125, 250, 375, 500, 0, 1000>> >> }

OverviewInit ==
    /\ csv = OkFile(<<>>)
    /\ dir = <<>>
    /\ dir0 = dir
    /\ \/ /\ pc = "task_d"
          /\ \E w \in WeekFiles : electricity_data = <<w>>
       \/ /\ pc = "task_e"
          /\ \E w \in WeekFiles : \E later \in [2..FileNames -> LaterWeekFiles] :
                electricity_data = [f \in 1..FileNames |-> IF f = 1 THEN w ELSE later[f]]
    /\ start_date = NoDate
    /\ report_lines = <<>>
    /\ console = <<>>
    /\ out = <<>>
    /\ cycles = 0
    /\ range = NoRange
    /\ summary = <<>>
    /\ displays = 0
    /\ writes = <<>>
    /\ line = <<>>

OverviewFrame ==
    UNCHANGED <<csv, dir, electricity_data, start_date, report_lines, console,
                out, cycles, range, displays, writes, line, dir0>>

\* task_d.py main
TaskDMain ==
    /\ pc = "task_d"
    /\ summary' = << <<calculate_daily_overview_d(electricity_data[1])>> >>
    /\ pc' = "done"
    /\ OverviewFrame

\* task_e.py analyze_multiple_files
AnalyzeMultipleFiles ==
    /\ pc = "task_e"
    /\ summary' = << [f \in 1..Len(electricity_data) |->
                        calculate_daily_overview(electricity_data[f])] >>
    /\ pc' = "analyzed"
    /\ OverviewFrame

\* task_e.py generate_report, after analyze_multiple_files
GenerateReport ==
    /\ pc = "analyzed"
    /\ LET weekly == [f \in 1..Len(summary[1]) |->
                        calculate_weekly_summary(summary[1][f])]
       IN  summary' = <<summary[1], weekly, calculate_total_summary(weekly)>>
    /\ pc' = "done"
    /\ OverviewFrame

OverviewNext == TaskDMain \/ AnalyzeMultipleFiles \/ GenerateReport

OverviewSpec == OverviewInit /\ [][OverviewNext]_vars

\* The calendar dates of the records of one file.
DatesIn(data) == {DateOf(data[i][1]) : i \in 1..Len(data)}

\* The records of one file that carry the date of dt.
OnDateOf(data, dt) == SelectSeq(data, LAMBDA r : DateOf(r[1]) = DateOf(dt))

\* ov is the daily overview of data: one row per date of data, dates
\* strictly ascending, each value the Wh sum of the date's records / 1000.
IsOverviewOf(ov, data) ==
    /\ Len(ov) = Cardinality(DatesIn(data))
    /\ {DateOf(ov[k][1]) : k \in 1..Len(ov)} = DatesIn(data)
    /\ \A k \in 1..Len(ov) : \A j \in 1..Len(ov) :
          k < j => Ordinal(ov[k][1].y, ov[k][1].m, ov[k][1].d)
                       < Ordinal(ov[j][1].y, ov[j][1].m, ov[j][1].d)
    /\ \A k \in 1..Len(ov) : \A i \in 2..7 :
          ov[k][i] = RoundRat(ExactSum(OnDateOf(data, ov[k][1]), i) * Pow2(FracBits), 1000)
    /\ \A i \in 2..7 :
          ExactSum(data, i) =
              ExactSum([k \in 1..Len(ov) |->
                           [c \in 1..7 |-> IF c = 1 THEN ov[k][1]
                                           ELSE ExactSum(OnDateOf(data, ov[k][1]), c)]], i)

\* C27: calculate_daily_overview (task_e.py and task_d.py) returns one row
\* per calendar date of its input, in ascending date order whatever the
\* order of the input, each of the six values of a row being the sum of
\* that Wh field over the records of the date divided by 1000, so every
\* record is counted once; the weekly summary is the component-wise sum of
\* the daily rows and the total summary that of the weekly summaries.
C27_DailyOverview ==
    /\ pc \in {"analyzed", "done"} =>
          /\ Len(summary[1]) = Len(electricity_data)
          /\ \A f \in 1..Len(electricity_data) :
                IsOverviewOf(summary[1][f], electricity_data[f])
    /\ (pc = "done" /\ Len(summary) = 3) =>
          /\ Len(summary[2]) = Len(summary[1])
          /\ \A f \in 1..Len(summary[1]) : \A i \in 1..6 :
                summary[2][f][i] = SumInOrder(summary[1][f], i + 1)
          /\ \A i \in 1..6 : summary[3][i] = SumInOrder(summary[2], i)

\* C27 witness: the first file has three records of two dates, the later
\* date first; its overview has two rows, the earlier date first, and
\* the summaries of all files are computed.
C27_Witness ==
    /\ pc = "done" /\ Len(summary) = 3
    /\ Len(electricity_data[1]) = 3
    /\ DateLt(DateOf(electricity_data[1][2][1]), DateOf(electricity_data[1][1][1]))
    /\ DateOf(electricity_data[1][3][1]) = DateOf(electricity_data[1][1][1])
    /\ Len(summary[1][1]) = 2
    /\ DateOf(summary[1][1][1][1]) = DateOf(electricity_data[1][2][1])
    /\ summary[1][1][2][2] # DivThousand(electricity_data[1][1][2])
    /\ summary[3][1] # summary[2][1][1]

====
